---- MODULE Spec2Model ----
(***************************************************************************)
(* Model of simple_cl (FabianFriederichs/simple_cl): the completion token  *)
(* (Event), the dependency collection of Program / Buffer / Image calls    *)
(* and the Buffer transfer engine, as state machines over the wrapper      *)
(* objects' fields and the commands they hand to the OpenCL device layer.  *)
(*                                                                         *)
(* The device layer is the external collaborator.  It is modelled by its   *)
(* documented OpenCL contract at each call site: a call whose arguments    *)
(* are invalid returns the documented error status, any other call         *)
(* returns CL_SUCCESS.  CL_EX(...) turns a non-success status into a       *)
(* CLException.                                                            *)
(***************************************************************************)
EXTENDS Integers, Sequences, FiniteSets, TLC

VARIABLES
    events,      \* Event objects: slot -> [alive, m_event]
    refcount,    \* device side: reference count of each cl_event handle
    created,     \* device side: cl_event handles handed out so far
    finalized,   \* device side: cl_event handles whose count dropped to 0
    op,          \* the last operation called, with its arguments
    dev_calls,   \* the device calls (and host copies) the last operation made
    outcome,     \* how the last operation ended: "ok" or the exception type
    ret_event,   \* m_event of the Event returned by the last operation
    m_size,      \* Buffer::m_size
    host_access, \* Buffer::m_flags.host_access
    mem,         \* contents of the device buffer, byte i at mem[i + 1]
    host_out,    \* the bytes the last operation copied into host memory
    m_event_cache, \* the scratch list of cl_event handles of the Program, Buffer and Image
    m_image_desc, \* Image::m_image_desc: type, dimensions <<width, height, depth>>,
                 \* channel_order, channel_type, host_access (of flags)
    pixels,      \* contents of the device image, byte i at pixels[i + 1], rows
                 \* and slices tightly packed
    dep_list,    \* m_event of the Events in the caller's collection [dep_begin, dep_end)
    kernel_args, \* device side: the parameter slots of the kernel that have been bound
    last_write,  \* history: the successful write_bytes call that the latest
                 \* read_bytes calls directly follow, or NoWrite
    objects,     \* the Buffer, Image and Program objects of the caller: slot -> fields
    released,    \* device side: handle -> number of release calls made on it
    returned     \* <<value>> returned by the last call of a utility function

vars == <<events, refcount, created, finalized, op, dev_calls, outcome, ret_event,
          m_size, host_access, mem, host_out, m_event_cache, m_image_desc, pixels,
          dep_list, kernel_args, last_write, objects, released, returned>>

eventVars == <<events, refcount, created, finalized>>
ownerVars == <<objects, released, returned>>
nonEventVars == <<ret_event, m_size, host_access, mem, host_out, m_event_cache, m_image_desc,
                  pixels, dep_list, kernel_args, last_write, ownerVars>>

----------------------------------------------------------------------------
(* Bounds of the model *)

NumTokens == 2
NumHandles == 2
MaxRefs == 3
MaxDeps == 2
SizeMax == 3
MaxBufSize == 2
MaxElems == 3
ImageSizeMax == 31

NULL == 0
Tokens == 1..NumTokens
Handles == 1..NumHandles

\* std::size_t: the values 0..SizeMax, arithmetic wraps modulo SizeMax + 1
SizeMod == SizeMax + 1
SizeT == 0..SizeMax
ImageSizeMod == ImageSizeMax + 1
Bytes == {0, 1}
\* sizeof(elem_t) of the typed transfers
ElemSizes == {1, 2}

\* exception types
OK == "ok"
CLException == "CLException"
OutOfRange == "std::out_of_range"
RuntimeError == "std::runtime_error"

\* OpenCL status codes
CL_SUCCESS == "CL_SUCCESS"
CL_INVALID_VALUE == "CL_INVALID_VALUE"
CL_INVALID_EVENT == "CL_INVALID_EVENT"
CL_INVALID_EVENT_WAIT_LIST == "CL_INVALID_EVENT_WAIT_LIST"

\* HostAccess
NoAccess == "NoAccess"
ReadOnly == "ReadOnly"
WriteOnly == "WriteOnly"
ReadWrite == "ReadWrite"
HostAccess == {NoAccess, ReadOnly, WriteOnly, ReadWrite}

NoWrite == [name |-> "none"]
Crash == "crash"
\* an exception that leaves a noexcept function: std::terminate ends the process
Terminated == "std::terminate"
\* the process has not been ended
Running == outcome \notin {Crash, Terminated}

\* _check_throw_cl_error: a status other than CL_SUCCESS throws CLException
check_throw_cl_error(status) == IF status # CL_SUCCESS THEN CLException ELSE OK

----------------------------------------------------------------------------
(* Device layer: cl_event reference counting and waiting *)

\* clRetainEvent(h)
clRetainEventStatus(h) ==
    IF h = NULL \/ h \notin created \/ h \in finalized THEN CL_INVALID_EVENT ELSE CL_SUCCESS
RetainedCount(rc, h) ==
    IF clRetainEventStatus(h) = CL_SUCCESS THEN [rc EXCEPT ![h] = @ + 1] ELSE rc

\* clReleaseEvent(h): the event is finalized when its count reaches 0
clReleaseEventStatus(h) ==
    IF h = NULL \/ h \notin created \/ h \in finalized THEN CL_INVALID_EVENT ELSE CL_SUCCESS
ReleasedCount(rc, h) ==
    IF clReleaseEventStatus(h) = CL_SUCCESS THEN [rc EXCEPT ![h] = @ - 1] ELSE rc
ReleasedFinal(rc, fin, h) ==
    IF clReleaseEventStatus(h) = CL_SUCCESS /\ rc[h] = 1 THEN fin \cup {h} ELSE fin

\* clWaitForEvents(num_events, event_list): every entry has to be a valid
\* event, which a null handle and a handle that was finalized are not
clWaitForEventsStatus(list) ==
    IF Len(list) = 0 THEN CL_INVALID_VALUE
    ELSE IF \E k \in 1..Len(list) : list[k] = NULL \/ list[k] \in finalized
    THEN CL_INVALID_EVENT
    ELSE CL_SUCCESS

WaitCall(list) == [call |-> "clWaitForEvents", list |-> list,
                   status |-> clWaitForEventsStatus(list)]

----------------------------------------------------------------------------
(* class Event *)

Dead == [alive |-> FALSE, m_event |-> NULL]
Token(h) == [alive |-> TRUE, m_event |-> h]

\* the handles of new commands (the device hands them out with reference
\* count 1)
FreshHandles == {h \in Handles : h \notin created}

\* Event::Event(cl_event ev): the caller wraps no handle, the handle of a new
\* command, or a handle it has got before; the constructor takes it as it is
EventCtor(i, h) ==
    /\ Running
    /\ ~events[i].alive
    /\ events' = [events EXCEPT ![i] = Token(h)]
    /\ created' = IF h = NULL THEN created ELSE created \cup {h}
    /\ refcount' = IF h \in FreshHandles THEN [refcount EXCEPT ![h] = 1] ELSE refcount
    /\ op' = [name |-> "Event::Event", tok |-> i, other |-> 0, h |-> h]
    /\ dev_calls' = <<>>
    /\ outcome' = OK
    /\ UNCHANGED <<finalized, nonEventVars>>

\* Event::~Event(): the destructor is noexcept, so the exception of a failed
\* clReleaseEvent ends the process
EventDtorReleases(h) == h # NULL
EventDtor(i) ==
    /\ Running
    /\ events[i].alive
    /\ LET h == events[i].m_event
           rel == EventDtorReleases(h)
       IN /\ refcount' = IF rel THEN ReleasedCount(refcount, h) ELSE refcount
          /\ finalized' = IF rel THEN ReleasedFinal(refcount, finalized, h) ELSE finalized
          /\ dev_calls' = IF rel THEN <<[call |-> "clReleaseEvent", list |-> <<h>>,
                                         status |-> clReleaseEventStatus(h)]>>
                          ELSE <<>>
          /\ outcome' = IF rel /\ clReleaseEventStatus(h) # CL_SUCCESS THEN Terminated ELSE OK
          /\ op' = [name |-> "Event::~Event", tok |-> i, other |-> 0, h |-> h]
          /\ events' = IF rel /\ clReleaseEventStatus(h) # CL_SUCCESS THEN events
                        ELSE [events EXCEPT ![i] = Dead]
    /\ UNCHANGED <<created, nonEventVars>>

\* Event::Event(const Event& other): when clRetainEvent fails the constructor
\* throws and there is no new object
EventCopyCtorRetains(h) == h # NULL
EventCopyCtor(i, j) ==
    /\ Running
    /\ ~events[i].alive /\ events[j].alive /\ i # j
    /\ LET h == events[j].m_event
           ret == EventCopyCtorRetains(h)
       IN /\ ret => refcount[h] < MaxRefs
          /\ events' = IF ret /\ clRetainEventStatus(h) # CL_SUCCESS THEN events
                        ELSE [events EXCEPT ![i] = Token(h)]
          /\ refcount' = IF ret THEN RetainedCount(refcount, h) ELSE refcount
          /\ dev_calls' = IF ret THEN <<[call |-> "clRetainEvent", list |-> <<h>>,
                                         status |-> clRetainEventStatus(h)]>>
                          ELSE <<>>
          /\ outcome' = IF ret THEN check_throw_cl_error(clRetainEventStatus(h)) ELSE OK
          /\ op' = [name |-> "Event::Event(const Event&)", tok |-> i, other |-> j, h |-> h]
    /\ UNCHANGED <<created, finalized, nonEventVars>>

\* Event::Event(Event&& other)
EventMoveCtor(i, j) ==
    /\ Running
    /\ ~events[i].alive /\ events[j].alive /\ i # j
    /\ events' = [events EXCEPT ![i] = Token(events[j].m_event), ![j] = Token(NULL)]
    /\ dev_calls' = <<>>
    /\ outcome' = OK
    /\ op' = [name |-> "Event::Event(Event&&)", tok |-> i, other |-> j,
              h |-> events[j].m_event]
    /\ UNCHANGED <<refcount, created, finalized, nonEventVars>>

\* Event::operator=(const Event& other): m_event is overwritten (the handle held
\* before is not released) and clRetainEvent is called on the new value
\* without a null check
EventCopyAssign(i, j) ==
    /\ Running
    /\ events[i].alive /\ events[j].alive
    /\ LET h == events[j].m_event
       IN IF i = j
          THEN /\ UNCHANGED <<events, refcount>>
               /\ dev_calls' = <<>>
               /\ outcome' = OK
          ELSE /\ h # NULL => refcount[h] < MaxRefs
               /\ events' = [events EXCEPT ![i] = Token(h)]
               /\ refcount' = RetainedCount(refcount, h)
               /\ dev_calls' = <<[call |-> "clRetainEvent", list |-> <<h>>,
                                  status |-> clRetainEventStatus(h)]>>
               /\ outcome' = check_throw_cl_error(clRetainEventStatus(h))
    /\ op' = [name |-> "Event::operator=(const Event&)", tok |-> i, other |-> j,
              h |-> events[i].m_event]
    /\ UNCHANGED <<created, finalized, nonEventVars>>

\* Event::operator=(Event&& other): swaps the two handles
EventMoveAssign(i, j) ==
    /\ Running
    /\ events[i].alive /\ events[j].alive
    /\ events' = IF i = j THEN events
                 ELSE [events EXCEPT ![i] = Token(events[j].m_event),
                                     ![j] = Token(events[i].m_event)]
    /\ dev_calls' = <<>>
    /\ outcome' = OK
    /\ op' = [name |-> "Event::operator=(Event&&)", tok |-> i, other |-> j,
              h |-> events[j].m_event]
    /\ UNCHANGED <<refcount, created, finalized, nonEventVars>>

\* Event::wait(): the handle is passed to clWaitForEvents whatever it is
EventWaitCalls(h) == <<WaitCall(<<h>>)>>
EventWait(i) ==
    /\ Running
    /\ events[i].alive
    /\ LET calls == EventWaitCalls(events[i].m_event)
       IN /\ dev_calls' = calls
          /\ outcome' = IF calls = <<>> THEN OK
                        ELSE check_throw_cl_error(calls[1].status)
    /\ op' = [name |-> "Event::wait", tok |-> i, other |-> 0, h |-> events[i].m_event]
    /\ UNCHANGED <<events, refcount, created, finalized, nonEventVars>>

----------------------------------------------------------------------------
(* Dependency collection *)

\* the loop "for(it = begin; it != end; ++it) if(it->m_event) cache.push_back(it->m_event)"
RECURSIVE CollectDeps(_, _)
CollectDeps(cache, deps) ==
    IF deps = <<>> THEN cache
    ELSE CollectDeps(IF Head(deps) # NULL THEN Append(cache, Head(deps)) ELSE cache,
                     Tail(deps))

\* the m_event values of the Event objects in slots lo..hi (an iterator range)
RangeHandles(lo, hi) == [k \in 1..(hi - lo + 1) |-> events[lo + k - 1].m_event]

\* wait_for_events(begin, end): event_cache.clear(), collect, Event::wait_for_events_
wait_for_events_cache(deps) == CollectDeps(<<>>, deps)
WaitForEvents(lo, hi) ==
    /\ Running
    /\ lo <= hi + 1
    /\ \A k \in lo..hi : events[k].alive
    /\ LET deps == RangeHandles(lo, hi)
           call == WaitCall(wait_for_events_cache(deps))
       IN /\ dev_calls' = <<call>>
          /\ outcome' = check_throw_cl_error(call.status)
          /\ op' = [name |-> "wait_for_events", tok |-> lo, other |-> hi, h |-> NULL,
                    deps |-> deps]
    /\ UNCHANGED <<events, refcount, created, finalized, nonEventVars>>

----------------------------------------------------------------------------
(* Specification of the Event objects *)

NoCaches == [Program |-> <<>>, Buffer |-> <<>>, Image |-> <<>>]
NoImage == [dimensions |-> <<0, 0, 0>>, host_access |-> NoAccess]

InitCommon ==
    /\ op = [name |-> "none"]
    /\ dev_calls = <<>>
    /\ outcome = OK
    /\ ret_event = NULL
    /\ objects = <<>>
    /\ released = <<>>
    /\ returned = <<>>

InitEvents ==
    /\ InitCommon
    /\ events = [i \in Tokens |-> Dead]
    /\ refcount = [h \in Handles |-> 0]
    /\ created = {}
    /\ finalized = {}
    /\ m_size = 0
    /\ host_access = ReadWrite
    /\ mem = <<>>
    /\ host_out = <<>>
    /\ m_event_cache = NoCaches
    /\ m_image_desc = NoImage
    /\ pixels = <<>>
    /\ dep_list = <<>>
    /\ kernel_args = {}
    /\ last_write = NoWrite

NextEvents ==
    \/ \E i \in Tokens, h \in Handles \cup {NULL} : EventCtor(i, h)
    \/ \E i \in Tokens : EventDtor(i)
    \/ \E i, j \in Tokens : EventCopyCtor(i, j)
    \/ \E i, j \in Tokens : EventMoveCtor(i, j)
    \/ \E i, j \in Tokens : EventCopyAssign(i, j)
    \/ \E i, j \in Tokens : EventMoveAssign(i, j)
    \/ \E i \in Tokens : EventWait(i)
    \/ \E lo \in 1..(NumTokens + 1), hi \in 0..NumTokens : WaitForEvents(lo, hi)

SpecEvents == InitEvents /\ [][NextEvents]_vars

----------------------------------------------------------------------------
(* Claims about the Event objects, checked under SpecEvents *)

NonNull(list) == SelectSeq(list, LAMBDA h : h # NULL)
LiveRefs(h) == {i \in Tokens : events[i].alive /\ events[i].m_event = h}

\* C1: wait() on an Event whose handle is null returns without raising an error.
C1_NullWaitSucceeds ==
    (op.name = "Event::wait" /\ op.h = NULL) => outcome = OK

\* C2: the reference count of every command handle equals the number of live
\* Events that hold it, and the command is finalized exactly when no live Event
\* holds it any more.
C2_RefcountIsLiveTokens ==
    \A h \in created :
        /\ refcount[h] = Cardinality(LiveRefs(h))
        /\ (h \in finalized) <=> (LiveRefs(h) = {})

\* C4: wait_for_events issues exactly one combined device wait, on exactly the
\* non-null handles of the sequence in order, and a sequence that is empty or
\* holds only null handles completes without error.
C4_BatchedWait ==
    op.name = "wait_for_events" =>
        /\ Len(dev_calls) = 1
        /\ dev_calls[1].call = "clWaitForEvents"
        /\ dev_calls[1].list = NonNull(op.deps)
        /\ (NonNull(op.deps) = <<>>) => outcome = OK

----------------------------------------------------------------------------
(* Device layer: buffer mapping *)

Wrap(x) == x % SizeMod

\* the handle of the event the device creates for a command of the running
\* operation (distinct from every handle a caller can pass as a dependency)
NewEvent == NumHandles + 1

\* clEnqueueMapBuffer(queue, buffer, blocking, flags, offset, size, wait list):
\* CL_INVALID_VALUE for an empty region or one that is not inside the buffer
clEnqueueMapBufferStatus(offset, size, wait_list) ==
    IF size = 0 \/ offset + size > m_size THEN CL_INVALID_VALUE
    ELSE IF \E k \in 1..Len(wait_list) : wait_list[k] = NULL \/ wait_list[k] \in finalized
    THEN CL_INVALID_EVENT_WAIT_LIST
    ELSE CL_SUCCESS

\* a map command that drops the wait list
MapCallWithoutDeps(flags, offset, size, wait_list) ==
    [call |-> "clEnqueueMapBuffer", blocking |-> TRUE, flags |-> flags, offset |-> offset,
     length |-> size, wait_list |-> <<>>, event |-> NULL,
     status |-> IF size = 0 \/ offset + size > m_size THEN "CL_INVALID_VALUE"
                ELSE "CL_SUCCESS"]

MapCall(flags, offset, size, wait_list) ==
    [call |-> "clEnqueueMapBuffer", blocking |-> TRUE, flags |-> flags, offset |-> offset,
     length |-> size, wait_list |-> wait_list, event |-> NULL,
     status |-> clEnqueueMapBufferStatus(offset, size, wait_list)]

\* the host-side copy into or out of the mapping
CopyStep(dir, offset, size) ==
    [call |-> "memcpy", blocking |-> FALSE, flags |-> dir, offset |-> offset,
     length |-> size, wait_list |-> <<>>, event |-> NULL, status |-> CL_SUCCESS]

\* clEnqueueUnmapMemObject(queue, buffer, ptr, 0, nullptr, &unmap_event)
UnmapCall(offset, size) ==
    [call |-> "clEnqueueUnmapMemObject", blocking |-> FALSE, flags |-> "", offset |-> offset,
     length |-> size, wait_list |-> <<>>, event |-> NewEvent, status |-> CL_SUCCESS]

\* a copy that lands at the start of the buffer whatever the mapped offset is
OverwriteAtStart(m, offset, bytes) ==
    [i \in 1..Len(m) |-> IF i <= Len(bytes) THEN bytes[i] ELSE m[i]]

\* the buffer contents after bytes were copied to [offset, offset + Len(bytes))
Overwrite(m, offset, bytes) ==
    [i \in 1..Len(m) |-> IF i > offset /\ i <= offset + Len(bytes) THEN bytes[i - offset]
                         ELSE m[i]]

\* the bytes of [offset, offset + size)
Region(m, offset, size) == [i \in 1..size |-> m[offset + i]]

----------------------------------------------------------------------------
(* class Buffer: buf_write, buf_read, map_buffer, unmap_buffer *)

Thrown(ex) == [outcome |-> ex, calls |-> <<>>, mem |-> mem, out |-> <<>>, ret |-> NULL]

\* a write check that lets NoAccess buffers through
WriteDeniedOnlyReadOnly == host_access = ReadOnly

WriteDenied == host_access = ReadOnly \/ host_access = NoAccess
ReadDenied == host_access = WriteOnly \/ host_access = NoAccess

\* "offset + length > m_size" in std::size_t
buf_out_of_range(length, offset) == Wrap(offset + length) > m_size
\* _offset and _length
buf_offset(length, offset) == IF length > 0 THEN offset ELSE 0
buf_length(length) == IF length > 0 THEN length ELSE m_size

map_flags(write, invalidate) ==
    IF write THEN (IF invalidate THEN "CL_MAP_WRITE_INVALIDATE_REGION" ELSE "CL_MAP_WRITE")
    ELSE "CL_MAP_READ"

\* whether buf_write / buf_read get as far as the memcpy
buf_write_copies(length, offset, cache) ==
    /\ ~buf_out_of_range(length, offset)
    /\ ~WriteDenied
    /\ clEnqueueMapBufferStatus(buf_offset(length, offset), buf_length(length), cache)
           = CL_SUCCESS

\* Buffer::buf_write(data, length, offset, invalidate), m_event_cache being cache
buf_write(data, length, offset, invalidate, cache) ==
    IF buf_out_of_range(length, offset) THEN Thrown(OutOfRange)
    ELSE IF WriteDenied THEN Thrown(RuntimeError)
    ELSE LET _offset == buf_offset(length, offset)
             _length == buf_length(length)
             map == MapCall(map_flags(TRUE, invalidate), _offset, _length, cache)
             unmap == UnmapCall(_offset, _length)
         IN IF map.status # CL_SUCCESS
            THEN [outcome |-> CLException, calls |-> <<map>>, mem |-> mem,
                  out |-> <<>>, ret |-> NULL]
            ELSE [outcome |-> OK,
                  calls |-> <<map, CopyStep("to device", _offset, _length), unmap>>,
                  mem |-> Overwrite(mem, _offset, data),
                  out |-> <<>>, ret |-> unmap.event]

\* Buffer::buf_read(data, length, offset), m_event_cache being cache
buf_read(length, offset, cache) ==
    IF buf_out_of_range(length, offset) THEN Thrown(OutOfRange)
    ELSE IF ReadDenied THEN Thrown(RuntimeError)
    ELSE LET _offset == buf_offset(length, offset)
             _length == buf_length(length)
             map == MapCall(map_flags(FALSE, FALSE), _offset, _length, cache)
             unmap == UnmapCall(_offset, _length)
         IN IF map.status # CL_SUCCESS
            THEN [outcome |-> CLException, calls |-> <<map>>, mem |-> mem,
                  out |-> <<>>, ret |-> NULL]
            ELSE [outcome |-> OK,
                  calls |-> <<map, CopyStep("to host", _offset, _length), unmap>>,
                  mem |-> mem,
                  out |-> Region(mem, _offset, _length), ret |-> unmap.event]

\* the caller's data: _length bytes when the call copies them, not looked at otherwise
WriteData(length, offset, cache) ==
    IF buf_write_copies(length, offset, cache)
    THEN [1..buf_length(length) -> Bytes] ELSE {<<>>}

BufferOp(name, length, offset, esize, invalidate, data, deps) ==
    [name |-> name, length |-> length, offset |-> offset, esize |-> esize,
     invalidate |-> invalidate, data |-> data, deps |-> deps]

Finish(res) ==
    /\ dev_calls' = res.calls
    /\ outcome' = res.outcome
    /\ mem' = res.mem
    /\ host_out' = res.out
    /\ ret_event' = res.ret

\* Buffer::write_bytes(data, length, offset, invalidate)
BufferWriteBytes(length, offset, invalidate) ==
    /\ Running
    /\ \E data \in WriteData(length, offset, <<>>) :
         LET res == buf_write(data, length, offset, invalidate, <<>>)
         IN /\ Finish(res)
            /\ op' = BufferOp("Buffer::write_bytes", length, offset, 1, invalidate, data, <<>>)
            /\ last_write' = IF res.outcome = OK THEN op' ELSE NoWrite
    /\ m_event_cache' = [m_event_cache EXCEPT !.Buffer = <<>>]
    /\ UNCHANGED <<eventVars, ownerVars, m_size, host_access, m_image_desc, pixels, dep_list, kernel_args>>

\* Buffer::read_bytes(data, length, offset)
BufferReadBytes(length, offset) ==
    /\ Running
    /\ Finish(buf_read(length, offset, <<>>))
    /\ op' = BufferOp("Buffer::read_bytes", length, offset, 1, FALSE, <<>>, <<>>)
    /\ m_event_cache' = [m_event_cache EXCEPT !.Buffer = <<>>]
    /\ UNCHANGED <<eventVars, ownerVars, m_size, host_access, m_image_desc, pixels, dep_list, kernel_args,
                   last_write>>

----------------------------------------------------------------------------
(* class Buffer: the typed forms write(data_begin, data_end, ...) and        *)
(* read(data_begin, num_elements, ...)                                       *)

\* datasize and bufoffset, computed in std::size_t
typed_datasize(n, esize) == Wrap(n * esize)
typed_bufoffset(offset, esize) == Wrap(offset * esize)
typed_out_of_range(n, esize, offset) ==
    Wrap(typed_bufoffset(offset, esize) + typed_datasize(n, esize)) > m_size

\* Buffer::map_buffer(length, offset, write, invalidate)
map_buffer(length, offset, write, invalidate, cache) ==
    MapCall(map_flags(write, invalidate), offset, length, cache)
\* Buffer::unmap_buffer(bufptr)
unmap_buffer(offset, length) == UnmapCall(offset, length)

\* the element loop touches n * esize bytes of a mapping of datasize bytes
typed_overruns(n, esize) == n * esize > typed_datasize(n, esize)

\* whether the typed forms get as far as the element loop
typed_copies(n, esize, offset, denied, cache) ==
    /\ ~denied
    /\ ~typed_out_of_range(n, esize, offset)
    /\ map_buffer(typed_datasize(n, esize), typed_bufoffset(offset, esize), TRUE, FALSE,
                  cache).status = CL_SUCCESS

\* What a loop that runs past the end of the mapping can do: the process
\* dies, or it goes on with the memory it overwrote (or the bytes it read
\* past the end) being anything.
OverrunOutcomes == {OK, Crash}
OverrunMems == [1..m_size -> Bytes]
OverrunTails(n, esize) == [1..(n * esize - typed_datasize(n, esize)) -> Bytes]

\* the caller's elements as n * esize bytes
TypedData(n, esize, offset, cache) ==
    IF typed_copies(n, esize, offset, WriteDenied, cache) /\ ~typed_overruns(n, esize)
    THEN [1..(n * esize) -> Bytes] ELSE {<<>>}

\* Buffer::write(data_begin, data_end, offset, invalidate) from the access
\* check on; ub_outcome and ub_mem are what an overrunning loop leaves behind
typed_write(data, n, esize, offset, invalidate, cache, ub_outcome, ub_mem) ==
    IF typed_out_of_range(n, esize, offset) THEN Thrown(OutOfRange)
    ELSE LET datasize == typed_datasize(n, esize)
             bufoffset == typed_bufoffset(offset, esize)
             map == map_buffer(datasize, bufoffset, TRUE, invalidate, cache)
             copy == CopyStep("to device", bufoffset, n * esize)
             unmap == unmap_buffer(bufoffset, datasize)
         IN IF map.status # CL_SUCCESS
            THEN [outcome |-> CLException, calls |-> <<map>>, mem |-> mem,
                  out |-> <<>>, ret |-> NULL]
            ELSE IF typed_overruns(n, esize)
            THEN [outcome |-> ub_outcome,
                  calls |-> IF ub_outcome = OK THEN <<map, copy, unmap>> ELSE <<map, copy>>,
                  mem |-> ub_mem, out |-> <<>>,
                  ret |-> IF ub_outcome = OK THEN unmap.event ELSE NULL]
            ELSE [outcome |-> OK, calls |-> <<map, copy, unmap>>,
                  mem |-> Overwrite(mem, bufoffset, data),
                  out |-> <<>>, ret |-> unmap.event]

typed_read(n, esize, offset, cache, ub_outcome, ub_tail) ==
    IF typed_out_of_range(n, esize, offset) THEN Thrown(OutOfRange)
    ELSE LET datasize == typed_datasize(n, esize)
             bufoffset == typed_bufoffset(offset, esize)
             map == map_buffer(datasize, bufoffset, FALSE, FALSE, cache)
             copy == CopyStep("to host", bufoffset, n * esize)
             unmap == unmap_buffer(bufoffset, datasize)
         IN IF map.status # CL_SUCCESS
            THEN [outcome |-> CLException, calls |-> <<map>>, mem |-> mem,
                  out |-> <<>>, ret |-> NULL]
            ELSE IF typed_overruns(n, esize)
            THEN [outcome |-> ub_outcome,
                  calls |-> IF ub_outcome = OK THEN <<map, copy, unmap>> ELSE <<map, copy>>,
                  mem |-> mem,
                  out |-> Region(mem, bufoffset, datasize) \o ub_tail,
                  ret |-> IF ub_outcome = OK THEN unmap.event ELSE NULL]
            ELSE [outcome |-> OK, calls |-> <<map, copy, unmap>>, mem |-> mem,
                  out |-> Region(mem, bufoffset, datasize), ret |-> unmap.event]

OverrunChoice(n, esize, offset, denied, cache, S) ==
    IF typed_copies(n, esize, offset, denied, cache) /\ typed_overruns(n, esize)
    THEN S ELSE {CHOOSE x \in S : TRUE}

\* Buffer::write(data_begin, data_end, offset, invalidate)
BufferWrite(n, esize, offset, invalidate) ==
    /\ Running
    /\ \E data \in TypedData(n, esize, offset, <<>>),
          ub_outcome \in OverrunChoice(n, esize, offset, WriteDenied, <<>>, OverrunOutcomes),
          ub_mem \in OverrunChoice(n, esize, offset, WriteDenied, <<>>, OverrunMems) :
         LET res == IF WriteDenied THEN Thrown(RuntimeError)
                    ELSE typed_write(data, n, esize, offset, invalidate, <<>>,
                                     ub_outcome, ub_mem)
         IN /\ Finish(res)
            /\ op' = BufferOp("Buffer::write", n, offset, esize, invalidate, data, <<>>)
            \* m_event_cache.clear() comes after both checks
            /\ m_event_cache' = IF res.outcome \in {RuntimeError, OutOfRange}
                                THEN m_event_cache
                                ELSE [m_event_cache EXCEPT !.Buffer = <<>>]
    /\ last_write' = NoWrite
    /\ UNCHANGED <<eventVars, ownerVars, m_size, host_access, m_image_desc, pixels, dep_list, kernel_args>>

\* Buffer::read(data_begin, num_elements, offset)
BufferRead(n, esize, offset) ==
    /\ Running
    /\ \E ub_outcome \in OverrunChoice(n, esize, offset, ReadDenied, <<>>, OverrunOutcomes),
          ub_tail \in OverrunChoice(n, esize, offset, ReadDenied, <<>>,
                                    OverrunTails(n, esize)) :
         LET res == IF ReadDenied THEN Thrown(RuntimeError)
                    ELSE typed_read(n, esize, offset, <<>>, ub_outcome, ub_tail)
         IN /\ Finish(res)
            /\ op' = BufferOp("Buffer::read", n, offset, esize, FALSE, <<>>, <<>>)
            /\ m_event_cache' = IF res.outcome \in {RuntimeError, OutOfRange}
                                THEN m_event_cache
                                ELSE [m_event_cache EXCEPT !.Buffer = <<>>]
    /\ last_write' = NoWrite
    /\ UNCHANGED <<eventVars, ownerVars, m_size, host_access, m_image_desc, pixels, dep_list, kernel_args>>

----------------------------------------------------------------------------
(* Specifications of a Buffer used through the forms without dependencies *)

InitBuffer ==
    /\ InitCommon
    /\ events = [i \in Tokens |-> Dead]
    /\ refcount = [h \in Handles |-> 0]
    /\ created = {}
    /\ finalized = {}
    /\ m_size \in 1..MaxBufSize
    /\ host_access \in HostAccess
    /\ mem \in [1..m_size -> Bytes]
    /\ host_out = <<>>
    /\ m_event_cache = NoCaches
    /\ m_image_desc = NoImage
    /\ pixels = <<>>
    /\ dep_list = <<>>
    /\ kernel_args = {}
    /\ last_write = NoWrite

\* write_bytes and read_bytes on a buffer of any size and host access
NextBytes ==
    \/ \E length, offset \in SizeT, invalidate \in BOOLEAN :
           BufferWriteBytes(length, offset, invalidate)
    \/ \E length, offset \in SizeT : BufferReadBytes(length, offset)

SpecBytes == InitBuffer /\ [][NextBytes]_vars

\* the typed write and read on a buffer of any size and host access
NextTyped ==
    \/ \E n \in 0..MaxElems, esize \in ElemSizes, offset \in SizeT, invalidate \in BOOLEAN :
           BufferWrite(n, esize, offset, invalidate)
    \/ \E n \in 0..MaxElems, esize \in ElemSizes, offset \in SizeT :
           BufferRead(n, esize, offset)

SpecTyped == InitBuffer /\ [][NextTyped]_vars

\* the byte and the typed forms on a buffer whose host access is restricted
InitRestricted == InitBuffer /\ host_access # ReadWrite

NextRestricted ==
    \/ \E length, offset \in SizeT, invalidate \in BOOLEAN :
           BufferWriteBytes(length, offset, invalidate)
    \/ \E length, offset \in SizeT : BufferReadBytes(length, offset)
    \/ \E n \in 0..MaxElems, esize \in ElemSizes, offset \in SizeT, invalidate \in BOOLEAN :
           BufferWrite(n, esize, offset, invalidate)
    \/ \E n \in 0..MaxElems, esize \in ElemSizes, offset \in SizeT :
           BufferRead(n, esize, offset)

SpecRestricted == InitRestricted /\ [][NextRestricted]_vars

----------------------------------------------------------------------------
(* Claims about the Buffer forms without dependencies *)

ByteForms == {"Buffer::write_bytes", "Buffer::read_bytes"}
TypedForms == {"Buffer::write", "Buffer::read"}
WriteForms == {"Buffer::write_bytes", "Buffer::write"}
ReadForms == {"Buffer::read_bytes", "Buffer::read"}

\* the host access policy forbids the direction of the last call
Forbidden(o) ==
    \/ o.name \in WriteForms /\ host_access \in {ReadOnly, NoAccess}
    \/ o.name \in ReadForms /\ host_access \in {WriteOnly, NoAccess}

\* C5: write_bytes and read_bytes with offset + length (the true sum) greater
\* than the buffer size fail with an out-of-range error and submit no device
\* command.
C5_OutOfRangeRejected ==
    (op.name \in ByteForms /\ op.offset + op.length > m_size) =>
        (outcome = OutOfRange /\ dev_calls = <<>>)

\* C6: write_bytes and read_bytes with length = 0 on a buffer that permits the
\* direction transfer the whole buffer [0, size) whatever the offset is.
C6_ZeroLengthIgnoresOffset ==
    (op.name \in ByteForms /\ op.length = 0 /\ ~Forbidden(op)) =>
        /\ outcome = OK
        /\ dev_calls[1].offset = 0 /\ dev_calls[1].length = m_size
        /\ op.name = "Buffer::write_bytes" => mem = op.data
        /\ op.name = "Buffer::read_bytes" => host_out = mem

\* C7: a write (byte or typed form) on a ReadOnly or NoAccess buffer, and a
\* read on a WriteOnly or NoAccess buffer, is rejected with the access
\* violation error before any device call, and the contents are unchanged.
C7_ForbiddenRejected ==
    [][Forbidden(op') =>
          (outcome' = RuntimeError /\ dev_calls' = <<>> /\ mem' = mem)]_vars

\* C7 (amended): such a call is rejected before any device call and the
\* contents are unchanged; the error is the access violation, except that the
\* byte forms report out-of-range when offset + length (in the size type)
\* exceeds the buffer size.
C7_ForbiddenRejectedBeforeDevice ==
    [][Forbidden(op') =>
          /\ dev_calls' = <<>>
          /\ mem' = mem
          /\ outcome' = IF op'.name \in ByteForms
                           /\ (op'.offset + op'.length) % SizeMod > m_size
                        THEN OutOfRange ELSE RuntimeError]_vars

C7_Witness ==
    /\ op.name = "Buffer::write_bytes"
    /\ host_access = ReadOnly
    /\ op.offset + op.length > m_size
    /\ outcome = OutOfRange
    /\ dev_calls = <<>>

\* C8: a successful write_bytes of some bytes at (offset, length) followed by
\* a read_bytes of the same (offset, length) returns exactly the written
\* bytes, with or without invalidate; a write without invalidate leaves the
\* bytes outside the written range unchanged.
C8_RoundTrip ==
    [][/\ (/\ op'.name = "Buffer::read_bytes" /\ outcome' = OK
           /\ last_write # NoWrite
           /\ op'.offset = last_write.offset /\ op'.length = last_write.length)
          => host_out' = last_write.data
       /\ (op'.name = "Buffer::write_bytes" /\ outcome' = OK /\ ~op'.invalidate)
          => \A k \in 1..m_size :
                 (op'.length > 0 /\ (k <= op'.offset \/ k > op'.offset + op'.length))
                     => mem'[k] = mem[k]]_vars

C8_Witness ==
    /\ op.name = "Buffer::read_bytes" /\ outcome = OK
    /\ last_write # NoWrite
    /\ last_write.invalidate
    /\ op.offset = last_write.offset /\ op.length = last_write.length
    /\ op.offset > 0 /\ op.length > 0
    /\ host_out = last_write.data
    /\ \E k \in 1..m_size : mem[k] # host_out[1]

\* C9: the typed write and read reject, with an out-of-range error and before
\* any map command, every call whose true byte offset + byte length
\* (offset * sizeof + count * sizeof, without wrap-around) exceeds the buffer
\* size.
C9_TypedOutOfRangeRejected ==
    (/\ op.name \in TypedForms /\ ~Forbidden(op)
     /\ op.offset * op.esize + op.length * op.esize > m_size) =>
        (outcome = OutOfRange /\ dev_calls = <<>>)

----------------------------------------------------------------------------
(* Buffer: the forms that take a dependency range [dep_begin, dep_end) *)

\* Buffer::write_bytes(data, dep_begin, dep_end, length, offset, invalidate)
BufferWriteBytesDeps(length, offset, invalidate) ==
    /\ Running
    /\ LET cache == CollectDeps(<<>>, dep_list)
       IN /\ \E data \in WriteData(length, offset, cache) :
                LET res == buf_write(data, length, offset, invalidate, cache)
                IN /\ Finish(res)
                   /\ op' = BufferOp("Buffer::write_bytes", length, offset, 1, invalidate,
                                     data, dep_list)
                   /\ last_write' = IF res.outcome = OK THEN op' ELSE NoWrite
          /\ m_event_cache' = [m_event_cache EXCEPT !.Buffer = cache]
    /\ UNCHANGED <<eventVars, ownerVars, m_size, host_access, m_image_desc, pixels, dep_list, kernel_args>>

\* Buffer::read_bytes(data, dep_begin, dep_end, length, offset)
BufferReadBytesDeps(length, offset) ==
    /\ Running
    /\ LET cache == CollectDeps(<<>>, dep_list)
       IN /\ Finish(buf_read(length, offset, cache))
          /\ m_event_cache' = [m_event_cache EXCEPT !.Buffer = cache]
    /\ op' = BufferOp("Buffer::read_bytes", length, offset, 1, FALSE, <<>>, dep_list)
    /\ UNCHANGED <<eventVars, ownerVars, m_size, host_access, m_image_desc, pixels, dep_list, kernel_args,
                   last_write>>

\* Buffer::write(data_begin, data_end, dep_begin, dep_end, offset, invalidate):
\* the access check, then the collection of the dependencies, then the range check
BufferWriteDeps(n, esize, offset, invalidate) ==
    /\ Running
    /\ LET cache == CollectDeps(<<>>, dep_list)
       IN \E data \in TypedData(n, esize, offset, cache),
             ub_outcome \in OverrunChoice(n, esize, offset, WriteDenied, cache,
                                          OverrunOutcomes),
             ub_mem \in OverrunChoice(n, esize, offset, WriteDenied, cache, OverrunMems) :
            LET res == IF WriteDenied THEN Thrown(RuntimeError)
                       ELSE typed_write(data, n, esize, offset, invalidate, cache,
                                        ub_outcome, ub_mem)
            IN /\ Finish(res)
               /\ op' = BufferOp("Buffer::write", n, offset, esize, invalidate, data,
                                 dep_list)
               /\ m_event_cache' = IF res.outcome = RuntimeError THEN m_event_cache
                                   ELSE [m_event_cache EXCEPT !.Buffer = cache]
    /\ last_write' = NoWrite
    /\ UNCHANGED <<eventVars, ownerVars, m_size, host_access, m_image_desc, pixels, dep_list, kernel_args>>

\* Buffer::read(data_begin, num_elements, dep_begin, dep_end, offset)
BufferReadDeps(n, esize, offset) ==
    /\ Running
    /\ LET cache == CollectDeps(<<>>, dep_list)
       IN \E ub_outcome \in OverrunChoice(n, esize, offset, ReadDenied, cache,
                                          OverrunOutcomes),
             ub_tail \in OverrunChoice(n, esize, offset, ReadDenied, cache,
                                       OverrunTails(n, esize)) :
            LET res == IF ReadDenied THEN Thrown(RuntimeError)
                       ELSE typed_read(n, esize, offset, cache, ub_outcome, ub_tail)
            IN /\ Finish(res)
               /\ op' = BufferOp("Buffer::read", n, offset, esize, FALSE, <<>>, dep_list)
               /\ m_event_cache' = IF res.outcome = RuntimeError THEN m_event_cache
                                   ELSE [m_event_cache EXCEPT !.Buffer = cache]
    /\ last_write' = NoWrite
    /\ UNCHANGED <<eventVars, ownerVars, m_size, host_access, m_image_desc, pixels, dep_list, kernel_args>>

----------------------------------------------------------------------------
(* Device layer: kernels and image fills *)

CL_INVALID_ARG_INDEX == "CL_INVALID_ARG_INDEX"
CL_INVALID_ARG_SIZE == "CL_INVALID_ARG_SIZE"
CL_INVALID_KERNEL_ARGS == "CL_INVALID_KERNEL_ARGS"

\* the program holds one kernel, "k", whose two parameters take 4 and 8 bytes
KernelNames == {"k"}
KernelParams == <<4, 8>>

HasNull(wait_list) == \E k \in 1..Len(wait_list) : wait_list[k] = NULL

\* clSetKernelArg(kernel, index, arg_size, arg_data_ptr), index counted from 0
clSetKernelArgStatus(index, arg_size) ==
    IF index >= Len(KernelParams) THEN CL_INVALID_ARG_INDEX
    ELSE IF arg_size # KernelParams[index + 1] THEN CL_INVALID_ARG_SIZE
    ELSE CL_SUCCESS

SetArgCall(index, arg_size) ==
    [call |-> "clSetKernelArg", index |-> index, arg_size |-> arg_size,
     status |-> clSetKernelArgStatus(index, arg_size)]

\* clEnqueueNDRangeKernel(queue, kernel, ..., num_events, wait list, &ev) for
\* a kernel whose parameter slots in bound have been set
clEnqueueNDRangeKernelStatus(bound, wait_list) ==
    IF bound # 0..(Len(KernelParams) - 1) THEN CL_INVALID_KERNEL_ARGS
    ELSE IF HasNull(wait_list) \/ (\E k \in 1..Len(wait_list) : wait_list[k] \in finalized)
    THEN CL_INVALID_EVENT_WAIT_LIST
    ELSE CL_SUCCESS

NDRangeCall(bound, wait_list) ==
    LET status == clEnqueueNDRangeKernelStatus(bound, wait_list)
    IN [call |-> "clEnqueueNDRangeKernel", wait_list |-> wait_list,
        event |-> IF status = CL_SUCCESS THEN NewEvent ELSE NULL, status |-> status]

----------------------------------------------------------------------------
(* class Program: operator() with a dependency range *)

\* a setKernelArgs that goes on with the next slot after a rejected one
RECURSIVE setKernelArgsOn(_, _, _, _)
setKernelArgsOn(known, index, args, st) ==
    IF index >= Len(args) THEN st
    ELSE IF ~known THEN [st EXCEPT !.outcome = RuntimeError]
    ELSE LET call == SetArgCall(index, args[index + 1])
         IN setKernelArgsOn(known, index + 1, args,
                [calls |-> Append(st.calls, call),
                 bound |-> IF call.status = CL_SUCCESS THEN st.bound \cup {index}
                           ELSE st.bound,
                 outcome |-> IF st.outcome # OK THEN st.outcome
                             ELSE check_throw_cl_error(call.status)])

\* a setKernelArgs that binds to whatever kernel it is given, known or not
RECURSIVE setKernelArgsUnchecked(_, _, _, _)
setKernelArgsUnchecked(known, index, args, st) ==
    IF index >= Len(args) THEN st
    ELSE LET call == SetArgCall(index, args[index + 1])
         IN IF call.status # CL_SUCCESS
            THEN [calls |-> Append(st.calls, call), bound |-> st.bound,
                  outcome |-> check_throw_cl_error(call.status)]
            ELSE setKernelArgsUnchecked(known, index + 1, args,
                                        [calls |-> Append(st.calls, call),
                                         bound |-> st.bound \cup {index}, outcome |-> OK])

\* setKernelArgs<index>(name or kernel, args...): binds the arguments one by
\* one from slot index on; st is [calls, bound, outcome] so far. An unknown
\* name makes m_kernels.at(name) throw before the first clSetKernelArg.
RECURSIVE setKernelArgs(_, _, _, _)
setKernelArgs(known, index, args, st) ==
    IF index >= Len(args) THEN st
    ELSE IF ~known THEN [st EXCEPT !.outcome = RuntimeError]
    ELSE LET call == SetArgCall(index, args[index + 1])
         IN IF call.status # CL_SUCCESS
            THEN [calls |-> Append(st.calls, call), bound |-> st.bound,
                  outcome |-> check_throw_cl_error(call.status)]
            ELSE setKernelArgs(known, index + 1, args,
                               [calls |-> Append(st.calls, call),
                                bound |-> st.bound \cup {index}, outcome |-> OK])

\* Program::invoke(kernel, dep_events, exparams)
invoke(bound, dep_events) == NDRangeCall(bound, dep_events)

\* operator()(name or kernel, start_dep_iterator, end_dep_iterator, exec_params, args...)
ProgramCall(opname, name, known, args) ==
    /\ Running
    /\ LET set == setKernelArgs(known, 0, args,
                                [calls |-> <<>>, bound |-> kernel_args, outcome |-> OK])
           cache == CollectDeps(<<>>, dep_list)
           call == invoke(set.bound, cache)
       IN /\ kernel_args' = set.bound
          /\ IF set.outcome # OK
             THEN /\ outcome' = set.outcome
                  /\ dev_calls' = set.calls
                  /\ ret_event' = NULL
                  /\ UNCHANGED m_event_cache
             ELSE /\ m_event_cache' = [m_event_cache EXCEPT !.Program = cache]
                  /\ IF ~known
                     THEN /\ outcome' = RuntimeError
                          /\ dev_calls' = set.calls
                          /\ ret_event' = NULL
                     ELSE /\ outcome' = check_throw_cl_error(call.status)
                          /\ dev_calls' = Append(set.calls, call)
                          /\ ret_event' = call.event
    /\ op' = [name |-> opname, kernel |-> name, args |-> args, deps |-> dep_list]
    /\ host_out' = <<>>
    /\ UNCHANGED <<eventVars, ownerVars, m_size, host_access, mem, m_image_desc, pixels, dep_list, last_write>>

\* by kernel name
ProgramCallByName(name, args) ==
    ProgramCall("Program::operator()(name)", name, name \in KernelNames, args)

\* by kernel handle (asserted non-null)
ProgramCallByHandle(args) ==
    ProgramCall("Program::operator()(kernel)", "k", TRUE, args)

\* operator()(name or kernel, exec_params, args...): the same with
\* m_event_cache.clear() alone between the arguments and invoke
ProgramCallNoDeps(opname, name, known, args) ==
    /\ Running
    /\ LET set == setKernelArgs(known, 0, args,
                                [calls |-> <<>>, bound |-> kernel_args, outcome |-> OK])
           call == invoke(set.bound, <<>>)
       IN /\ kernel_args' = set.bound
          /\ IF set.outcome # OK
             THEN /\ outcome' = set.outcome
                  /\ dev_calls' = set.calls
                  /\ ret_event' = NULL
                  /\ UNCHANGED m_event_cache
             ELSE /\ m_event_cache' = [m_event_cache EXCEPT !.Program = <<>>]
                  /\ IF ~known
                     THEN /\ outcome' = RuntimeError
                          /\ dev_calls' = set.calls
                          /\ ret_event' = NULL
                     ELSE /\ outcome' = check_throw_cl_error(call.status)
                          /\ dev_calls' = Append(set.calls, call)
                          /\ ret_event' = call.event
    /\ op' = [name |-> opname, kernel |-> name, args |-> args, deps |-> <<>>]
    /\ host_out' = <<>>
    /\ UNCHANGED <<eventVars, ownerVars, m_size, host_access, mem, m_image_desc, pixels, dep_list, last_write>>

\* by kernel name, no dependencies
ProgramRunByName(name, args) ==
    ProgramCallNoDeps("Program::operator()(name, no deps)", name, name \in KernelNames, args)

\* by kernel handle (asserted non-null), no dependencies
ProgramRunByHandle(args) ==
    ProgramCallNoDeps("Program::operator()(kernel, no deps)", "k", TRUE, args)

----------------------------------------------------------------------------
(* class Image: the enums that pack their properties into bit fields *)

Shl(x, n) == x * 2^n
Shr(x, n) == x \div 2^n
\* x & mask for a mask of the form 2^k - 1
Mask(x, mask) == x % (mask + 1)

ChannelBaseType == [Int |-> 0, UInt |-> 1, Float |-> 2]
ColorChannel == [R |-> 0, G |-> 1, B |-> 2, A |-> 3]
ImageType == {"Image1D", "Image2D", "Image3D", "Image1DArray", "Image2DArray"}

\* a uint64_t enumerator (cl << 32) | lo: the OpenCL constant in the upper 32
\* bits, the packed fields in the lower 32 bits
Enum64(cl, lo) == [cl |-> cl, lo |-> lo]

\* [ CL constant | 8 bits channel count | 4 x 4 bits channel | 8 bits unused ]
ChannelOrderBits(count, c0, c1, c2, c3) ==
    Shl(count, 24) + Shl(c0, 20) + Shl(c1, 16) + Shl(c2, 12) + Shl(c3, 8)

ImageChannelOrder ==
    LET C == ColorChannel
    IN [R     |-> Enum64("CL_R", ChannelOrderBits(1, C.R, C.R, C.R, C.R)),
        RG    |-> Enum64("CL_RG", ChannelOrderBits(2, C.R, C.G, C.G, C.G)),
        RGBA  |-> Enum64("CL_RGBA", ChannelOrderBits(4, C.R, C.G, C.B, C.A)),
        BGRA  |-> Enum64("CL_BGRA", ChannelOrderBits(4, C.B, C.G, C.R, C.A)),
        sRGBA |-> Enum64("CL_sRGBA", ChannelOrderBits(4, C.R, C.G, C.B, C.A))]

\* [ CL constant | 16 bits size in bytes | 8 bits base type | 8 bits normalized ]
ChannelTypeBits(size, base, normalized) == Shl(size, 16) + Shl(base, 8) + normalized

ImageChannelType ==
    LET B == ChannelBaseType
    IN [SNORM_INT8  |-> Enum64("CL_SNORM_INT8", ChannelTypeBits(1, B.Int, 1)),
        SNORM_INT16 |-> Enum64("CL_SNORM_INT16", ChannelTypeBits(2, B.Int, 1)),
        UNORM_INT8  |-> Enum64("CL_UNORM_INT8", ChannelTypeBits(1, B.UInt, 1)),
        UNORM_INT16 |-> Enum64("CL_UNORM_INT16", ChannelTypeBits(2, B.UInt, 1)),
        INT8        |-> Enum64("CL_SIGNED_INT8", ChannelTypeBits(1, B.Int, 0)),
        INT16       |-> Enum64("CL_SIGNED_INT16", ChannelTypeBits(2, B.Int, 0)),
        INT32       |-> Enum64("CL_SIGNED_INT32", ChannelTypeBits(4, B.Int, 0)),
        UINT8       |-> Enum64("CL_UNSIGNED_INT8", ChannelTypeBits(1, B.UInt, 0)),
        UINT16      |-> Enum64("CL_UNSIGNED_INT16", ChannelTypeBits(2, B.UInt, 0)),
        UINT32      |-> Enum64("CL_UNSIGNED_INT32", ChannelTypeBits(4, B.UInt, 0)),
        HALF        |-> Enum64("CL_HALF_FLOAT", ChannelTypeBits(2, B.Float, 0)),
        FLOAT       |-> Enum64("CL_FLOAT", ChannelTypeBits(4, B.Float, 0))]

\* uint16_t: [ 8 bits type identifier | 4 bits size in bytes | 4 bits base type ]
HostTypeBits(id, size, base) == Shl(id, 8) + Shl(size, 4) + base

HostDataType ==
    LET B == ChannelBaseType
    IN [INT8   |-> HostTypeBits(0, 1, B.Int),
        INT16  |-> HostTypeBits(1, 2, B.Int),
        INT32  |-> HostTypeBits(2, 4, B.Int),
        UINT8  |-> HostTypeBits(3, 1, B.UInt),
        UINT16 |-> HostTypeBits(4, 2, B.UInt),
        UINT32 |-> HostTypeBits(5, 4, B.UInt),
        HALF   |-> HostTypeBits(6, 2, B.Float),
        FLOAT  |-> HostTypeBits(7, 4, B.Float)]

Enumerators(e) == {e[n] : n \in DOMAIN e}

\* struct HostChannelOrder, struct HostPitch, struct HostFormat
HostChannelOrder(num_channels, channels) ==
    [num_channels |-> num_channels, channels |-> channels]
HostPitch(row_pitch, slice_pitch) == [row_pitch |-> row_pitch, slice_pitch |-> slice_pitch]
HostFormat(channel_order, channel_type, pitch) ==
    [channel_order |-> channel_order, channel_type |-> channel_type, pitch |-> pitch]

\* struct ImageDesc, with the host access of its flags
ImageDesc(type, dimensions, channel_order, channel_type, access) ==
    [type |-> type, dimensions |-> dimensions, channel_order |-> channel_order,
     channel_type |-> channel_type, host_access |-> access]

get_image_channel_type_size(type) == Mask(Shr(type.lo, 16), 65535)
get_host_channel_type_size(type) == Mask(Shr(type, 4), 15)
get_num_image_pixel_components(channel_order) == Mask(Shr(channel_order.lo, 24), 255)
get_num_host_pixel_components(channel_order) == channel_order.num_channels
get_image_channel_base_type(channel_type) == Mask(Shr(channel_type.lo, 8), 255)
get_host_channel_base_type(channel_type) == Mask(channel_type, 15)

\* the channel of the slot after the one asked for
get_next_image_color_channel(channel_order, index) ==
    Mask(Shr(channel_order.lo, 16 - index * 4), 15)

get_image_color_channel(channel_order, index) ==
    Mask(Shr(channel_order.lo, 20 - index * 4), 15)

is_image_channel_format_normalized_integer(channel_type) == Mask(channel_type.lo, 255) # 0

\* a match_format that accepts every format
match_any_format(format) == TRUE

\* Image::match_format(format); channels[i] of the code is channels[i + 1]
match_format(format) ==
    IF ~(get_host_channel_base_type(format.channel_type)
         = get_image_channel_base_type(m_image_desc.channel_type))
    THEN FALSE
    ELSE IF ~(get_num_host_pixel_components(format.channel_order)
              = get_num_image_pixel_components(m_image_desc.channel_order))
    THEN FALSE
    ELSE \A i \in 0..(format.channel_order.num_channels - 1) :
            ~(format.channel_order.channels[i + 1]
              # get_image_color_channel(m_image_desc.channel_order, i))

BoolResult(b) == IF b THEN "true" ELSE "false"

\* a call of match_format on the image
MatchFormat(format) ==
    /\ op' = [name |-> "Image::match_format", format |-> format]
    /\ outcome' = BoolResult(match_format(format))
    /\ dev_calls' = <<>>
    /\ ret_event' = NULL
    /\ host_out' = <<>>
    /\ UNCHANGED <<eventVars, ownerVars, m_size, host_access, mem, m_event_cache, m_image_desc, pixels,
                   dep_list, kernel_args, last_write>>

----------------------------------------------------------------------------
(* Device layer: images *)

\* std::size_t of the image operations: wide enough for the byte sizes of
\* the images of the model
WrapImage(x) == x % ImageSizeMod

\* struct ImageRegion: offset <<width, height, depth>>, dimensions
ImageRegion(offset, dimensions) == [offset |-> offset, dimensions |-> dimensions]

\* a byte no pixel is stored in, and a byte whose value is indeterminate
PadByte == 0
Indeterminate == 255

Min(a, b) == IF a < b THEN a ELSE b

cl_pixel_size ==
    get_image_channel_type_size(m_image_desc.channel_type)
        * get_num_image_pixel_components(m_image_desc.channel_order)

\* the cl_image_desc Image::Image creates the image with: the depth is passed
\* for Image3D only, and it is the array size of both array types
cl_image_desc ==
    [image_width |-> m_image_desc.dimensions[1],
     image_height |-> m_image_desc.dimensions[2],
     image_depth |-> IF m_image_desc.type = "Image3D" THEN m_image_desc.dimensions[3] ELSE 1,
     image_array_size |-> IF m_image_desc.type \in {"Image1DArray", "Image2DArray"}
                          THEN m_image_desc.dimensions[3] ELSE 1]

\* the size of the device's image along the three axes of origin and region:
\* the device ignores image_height for an Image1D, the second axis of an
\* Image1DArray and the third of an Image2DArray count the images of the array
DeviceDimensions ==
    IF m_image_desc.type = "Image1D"
    THEN <<cl_image_desc.image_width, 1, 1>>
    ELSE IF m_image_desc.type = "Image1DArray"
    THEN <<cl_image_desc.image_width, cl_image_desc.image_array_size, 1>>
    ELSE IF m_image_desc.type = "Image2DArray"
    THEN <<cl_image_desc.image_width, cl_image_desc.image_height,
           cl_image_desc.image_array_size>>
    ELSE <<cl_image_desc.image_width, cl_image_desc.image_height, cl_image_desc.image_depth>>

\* the index in pixels of byte b of pixel (x, y, z), counted from 0
PixelIndex(x, y, z, b) ==
    ((z * DeviceDimensions[2] + y) * DeviceDimensions[1] + x) * cl_pixel_size + b

\* the device's rule for origin and region: inside the image, nowhere empty
InImage(origin, region) ==
    \A a \in 1..3 : region[a] # 0 /\ origin[a] + region[a] <= DeviceDimensions[a]

\* the row and slice pitch the device may report for a mapping of region:
\* rows packed or padded by a pixel, slices packed or padded by a row, slice
\* pitch 0 for 1D and 2D images
MapPitches(region) ==
    LET rows == {region[1] * cl_pixel_size, region[1] * cl_pixel_size + cl_pixel_size}
    IN IF m_image_desc.type \in {"Image1D", "Image2D"}
       THEN {HostPitch(r, 0) : r \in rows}
       ELSE UNION {{HostPitch(r, r * region[2]), HostPitch(r, r * region[2] + r)} :
                   r \in rows}

\* the bytes between the first and the last pixel byte of a region laid out
\* with the given pitches and pixel size
Extent(region, row_pitch, slice_pitch, pixel_size) ==
    (region[3] - 1) * slice_pitch + (region[2] - 1) * row_pitch + region[1] * pixel_size

\* the memory a mapping of the region shows: byte b of pixel (x, y, z) of the
\* region at z * slice_pitch + y * row_pitch + x * pixel size + b
MappedView(origin, region, row_pitch, slice_pitch) ==
    [j \in 1..Extent(region, row_pitch, slice_pitch, cl_pixel_size) |->
        LET z == (j - 1) \div slice_pitch
            y == ((j - 1) % slice_pitch) \div row_pitch
            c == ((j - 1) % slice_pitch) % row_pitch
        IN IF y < region[2] /\ c < region[1] * cl_pixel_size
           THEN pixels[PixelIndex(origin[1] + c \div cl_pixel_size, origin[2] + y,
                                  origin[3] + z, c % cl_pixel_size) + 1]
           ELSE PadByte]

\* the image after the mapping is released: the pixels of the region take
\* the bytes of the mapped memory
WrittenBack(origin, region, row_pitch, slice_pitch, mapped) ==
    [i \in 1..Len(pixels) |->
        LET b == (i - 1) % cl_pixel_size
            p == (i - 1) \div cl_pixel_size
            x == p % DeviceDimensions[1]
            y == (p \div DeviceDimensions[1]) % DeviceDimensions[2]
            z == p \div (DeviceDimensions[1] * DeviceDimensions[2])
        IN IF /\ x >= origin[1] /\ x < origin[1] + region[1]
              /\ y >= origin[2] /\ y < origin[2] + region[2]
              /\ z >= origin[3] /\ z < origin[3] + region[3]
           THEN mapped[(z - origin[3]) * slice_pitch + (y - origin[2]) * row_pitch
                       + (x - origin[1]) * cl_pixel_size + b + 1]
           ELSE pixels[i]]

\* clEnqueueMapImage(queue, image, blocking, flags, origin, region, &row_pitch,
\* &slice_pitch, num_events, wait list, nullptr, &err)
clEnqueueMapImageStatus(origin, region, wait_list) ==
    IF ~InImage(origin, region) THEN CL_INVALID_VALUE
    ELSE IF HasNull(wait_list) \/ (\E k \in 1..Len(wait_list) : wait_list[k] \in finalized)
    THEN CL_INVALID_EVENT_WAIT_LIST
    ELSE CL_SUCCESS

MapImageCall(flags, origin, region, wait_list, pitch) ==
    LET status == clEnqueueMapImageStatus(origin, region, wait_list)
    IN [call |-> "clEnqueueMapImage", blocking |-> TRUE, flags |-> flags,
        origin |-> origin, region |-> region, wait_list |-> wait_list,
        row_pitch |-> IF status = CL_SUCCESS THEN pitch.row_pitch ELSE 0,
        slice_pitch |-> IF status = CL_SUCCESS THEN pitch.slice_pitch ELSE 0,
        event |-> NULL, status |-> status]

\* std::memcpy(dst + dst_offset, src + src_offset, size); to is "device" or "host"
MemcpyCall(to, step) ==
    [call |-> "memcpy", to |-> to, dst |-> step.dst, src |-> step.src, size |-> step.size]

\* clEnqueueUnmapMemObject(queue, image, img_ptr, 0, nullptr, &map_event)
UnmapImageCall(origin, region) ==
    [call |-> "clEnqueueUnmapMemObject", origin |-> origin, region |-> region,
     wait_list |-> <<>>, event |-> NewEvent, status |-> CL_SUCCESS]

\* a copy that stops one byte short
MemcpyShort(dst, src, step) ==
    [j \in 1..Len(dst) |->
        IF j - 1 >= step.dst /\ j - 1 < step.dst + step.size - 1
        THEN LET i == j - 1 - step.dst + step.src
             IN IF i < Len(src) THEN src[i + 1] ELSE Indeterminate
        ELSE dst[j]]

\* dst after size bytes were copied to it; a byte read past the end of src is
\* indeterminate, a byte written past the end of dst is lost
Memcpy(dst, src, step) ==
    [j \in 1..Len(dst) |->
        IF j - 1 >= step.dst /\ j - 1 < step.dst + step.size
        THEN LET i == j - 1 - step.dst + step.src
             IN IF i < Len(src) THEN src[i + 1] ELSE Indeterminate
        ELSE dst[j]]

RECURSIVE MemcpyAll(_, _, _)
MemcpyAll(dst, src, steps) ==
    IF steps = <<>> THEN dst ELSE MemcpyAll(Memcpy(dst, src, Head(steps)), src, Tail(steps))

\* some copy of steps leaves dst (dst_len bytes) or src (src_len bytes)
Overruns(steps, dst_len, src_len) ==
    \E k \in 1..Len(steps) :
        \/ steps[k].dst + steps[k].size > dst_len
        \/ steps[k].src + steps[k].size > src_len

\* the pitches of a clEnqueueWriteImage / clEnqueueReadImage: a pitch of 0
\* stands for the packed one
EffectivePitch(region, row_pitch, slice_pitch) ==
    LET row == IF row_pitch # 0 THEN row_pitch ELSE region[1] * cl_pixel_size
    IN HostPitch(row, IF slice_pitch # 0 THEN slice_pitch ELSE row * region[2])

\* clEnqueueWriteImage / clEnqueueReadImage(queue, image, blocking, origin,
\* region, row_pitch, slice_pitch, ptr, num_events, wait list, &event)
clEnqueueRWImageStatus(origin, region, row_pitch, slice_pitch, wait_list) ==
    IF ~InImage(origin, region) THEN CL_INVALID_VALUE
    ELSE IF row_pitch # 0 /\ row_pitch < region[1] * cl_pixel_size THEN CL_INVALID_VALUE
    ELSE IF m_image_desc.type \in {"Image1D", "Image2D"} /\ slice_pitch # 0
    THEN CL_INVALID_VALUE
    ELSE IF slice_pitch # 0
            /\ slice_pitch < EffectivePitch(region, row_pitch, 0).row_pitch * region[2]
    THEN CL_INVALID_VALUE
    ELSE IF HasNull(wait_list) \/ (\E k \in 1..Len(wait_list) : wait_list[k] \in finalized)
    THEN CL_INVALID_EVENT_WAIT_LIST
    ELSE CL_SUCCESS

RWImageCall(name, blocking, origin, region, row_pitch, slice_pitch, wait_list) ==
    LET status == clEnqueueRWImageStatus(origin, region, row_pitch, slice_pitch, wait_list)
    IN [call |-> name, blocking |-> blocking, origin |-> origin, region |-> region,
        row_pitch |-> row_pitch, slice_pitch |-> slice_pitch, wait_list |-> wait_list,
        event |-> IF status = CL_SUCCESS THEN NewEvent ELSE NULL, status |-> status]

\* the host memory reached by a device copy of the region with these pitches
DeviceExtent(region, row_pitch, slice_pitch) ==
    LET eff == EffectivePitch(region, row_pitch, slice_pitch)
    IN Extent(region, eff.row_pitch, eff.slice_pitch, cl_pixel_size)

\* the device's own copy between the region and host memory laid out with the
\* pitches of the command
DeviceWritten(origin, region, row_pitch, slice_pitch, data) ==
    LET eff == EffectivePitch(region, row_pitch, slice_pitch)
        read == Memcpy([j \in 1..DeviceExtent(region, row_pitch, slice_pitch) |-> PadByte],
                       data,
                       [dst |-> 0, src |-> 0,
                        size |-> DeviceExtent(region, row_pitch, slice_pitch)])
    IN WrittenBack(origin, region, eff.row_pitch, eff.slice_pitch, read)

DeviceRead(origin, region, row_pitch, slice_pitch, host) ==
    LET eff == EffectivePitch(region, row_pitch, slice_pitch)
        view == MappedView(origin, region, eff.row_pitch, eff.slice_pitch)
    IN [j \in 1..Len(host) |->
           IF j <= Len(view) /\ ((j - 1) % eff.slice_pitch) \div eff.row_pitch < region[2]
                 /\ ((j - 1) % eff.slice_pitch) % eff.row_pitch < region[1] * cl_pixel_size
           THEN view[j] ELSE host[j]]

----------------------------------------------------------------------------
(* class Image: img_write_mapped, img_read_mapped, img_write, img_read *)

ImgResult(ex, calls, px, out, ret) ==
    [outcome |-> ex, calls |-> calls, pixels |-> px, out |-> out, ret |-> ret]
ImgThrown(ex, calls) == ImgResult(ex, calls, pixels, <<>>, NULL)

\* the access checks of the write (and fill) and of the read functions
img_write_denied ==
    m_image_desc.host_access = NoAccess \/ m_image_desc.host_access = ReadOnly
img_read_denied ==
    m_image_desc.host_access = NoAccess \/ m_image_desc.host_access = WriteOnly

\* the checks of the region: empty, exceeds the image, slice pitch of a 1D
\* or 2D image
img_bad_region(img_region, format) ==
    \/ ~(img_region.dimensions[1] # 0 /\ img_region.dimensions[2] # 0
         /\ img_region.dimensions[3] # 0)
    \/ \E a \in 1..3 :
          WrapImage(img_region.offset[a] + img_region.dimensions[a])
              > m_image_desc.dimensions[a]
    \/ /\ m_image_desc.type = "Image1D" \/ m_image_desc.type = "Image2D"
       /\ format.pitch.slice_pitch # 0

host_pixel_size(format) ==
    WrapImage(get_host_channel_type_size(format.channel_type)
              * get_num_host_pixel_components(format.channel_order))

\* pitches that take the rows and slices of the host image as packed, whatever
\* the format says
host_pitches_packed(img_region, format) ==
    LET row == WrapImage(img_region.dimensions[1] * host_pixel_size(format))
    IN [row_pitch |-> row, slice_pitch |-> WrapImage(img_region.dimensions[2] * row),
        too_small |-> FALSE]

\* the pitches for the host in bytes, and whether one of them is too small
host_pitches(img_region, format) ==
    LET width == img_region.dimensions[1]
        height == img_region.dimensions[2]
        host_row_pitch == IF format.pitch.row_pitch # 0 THEN format.pitch.row_pitch
                          ELSE WrapImage(width * host_pixel_size(format))
        host_slice_pitch == IF format.pitch.slice_pitch # 0 THEN format.pitch.slice_pitch
                            ELSE WrapImage(height * host_row_pitch)
    IN [row_pitch |-> host_row_pitch, slice_pitch |-> host_slice_pitch,
        too_small |-> \/ host_row_pitch < WrapImage(width * host_pixel_size(format))
                      \/ host_slice_pitch < WrapImage(height * host_row_pitch)]

\* the caller's host image of the region: byte b of pixel (x, y, z) holds 1 +
\* its position in the packed region, the bytes between rows and slices PadByte
HostImage(region, pitch, pixel_size) ==
    [j \in 1..Extent(region, pitch.row_pitch, pitch.slice_pitch, pixel_size) |->
        LET z == (j - 1) \div pitch.slice_pitch
            y == ((j - 1) % pitch.slice_pitch) \div pitch.row_pitch
            c == ((j - 1) % pitch.slice_pitch) % pitch.row_pitch
        IN IF y < region[2] /\ c < region[1] * pixel_size
           THEN 1 + (z * region[2] + y) * region[1] * pixel_size + c
           ELSE PadByte]

\* the caller's memory before a read
HostBlank(region, pitch, pixel_size) ==
    [j \in 1..Extent(region, pitch.row_pitch, pitch.slice_pitch, pixel_size) |-> PadByte]

\* copies that always go row by row, whatever the pitches
copy_rows(region, host, row_pitch, slice_pitch, to_device) ==
    [k \in 1..(region[3] * region[2]) |->
        LET dev == ((k - 1) \div region[2]) * slice_pitch + ((k - 1) % region[2]) * row_pitch
            hst == ((k - 1) \div region[2]) * host.slice_pitch
                   + ((k - 1) % region[2]) * host.row_pitch
            size == Min(row_pitch, host.row_pitch)
        IN IF to_device THEN [dst |-> dev, src |-> hst, size |-> size]
           ELSE [dst |-> hst, src |-> dev, size |-> size]]

\* the copies between the mapping (pitches row_pitch, slice_pitch) and the
\* host image (pitches host): the whole region, slice by slice or row by row;
\* dev_side and host_side name the fields of a step the two offsets go to
copy_tiers(region, host, row_pitch, slice_pitch, to_device) ==
    LET row_size == Min(row_pitch, host.row_pitch)
        slice_size == Min(slice_pitch, host.slice_pitch)
        region_size == WrapImage(region[3] * host.slice_pitch)
        Step(dev, hst, size) == IF to_device THEN [dst |-> dev, src |-> hst, size |-> size]
                                ELSE [dst |-> hst, src |-> dev, size |-> size]
    IN IF host.slice_pitch = slice_pitch
       THEN <<Step(0, 0, region_size)>>
       ELSE IF host.row_pitch = row_pitch
       THEN [k \in 1..region[3] |->
                Step((k - 1) * slice_pitch, (k - 1) * host.slice_pitch, slice_size)]
       ELSE [k \in 1..(region[3] * region[2]) |->
                LET slice_idx == (k - 1) \div region[2]
                    row_idx == (k - 1) % region[2]
                IN Step(slice_idx * slice_pitch + row_idx * row_pitch,
                        slice_idx * host.slice_pitch + row_idx * host.row_pitch,
                        row_size)]

MemcpyCalls(to, steps) == [k \in 1..Len(steps) |-> MemcpyCall(to, steps[k])]

\* Image::img_write_mapped(img_region, format, data_ptr, invalidate, default_value):
\* dev_pitch is what the device reports for the mapping, ub_outcome what a
\* copy that leaves the mapping or the host image does
img_write_mapped(img_region, format, invalidate, cache, dev_pitch, ub_outcome) ==
    IF img_write_denied THEN ImgThrown(RuntimeError, <<>>)
    ELSE IF img_bad_region(img_region, format) THEN ImgThrown(RuntimeError, <<>>)
    ELSE LET origin == img_region.offset
             region == img_region.dimensions
             host == host_pitches(img_region, format)
             map == MapImageCall(IF invalidate THEN "CL_MAP_WRITE_INVALIDATE_REGION"
                                 ELSE "CL_MAP_WRITE", origin, region, cache, dev_pitch)
             row_pitch == map.row_pitch
             slice_pitch == IF map.slice_pitch # 0 THEN map.slice_pitch
                            ELSE WrapImage(row_pitch * region[2])
             steps == copy_tiers(region, host, row_pitch, slice_pitch, TRUE)
             data == HostImage(region, host, host_pixel_size(format))
             view == MappedView(origin, region, row_pitch, slice_pitch)
             mapped == IF invalidate THEN [j \in 1..Len(view) |-> Indeterminate] ELSE view
             unmap == UnmapImageCall(origin, region)
         IN IF host.too_small THEN ImgThrown(RuntimeError, <<>>)
            ELSE IF map.status # CL_SUCCESS THEN ImgThrown(CLException, <<map>>)
            ELSE IF ~match_format(format) THEN ImgThrown(RuntimeError, <<map>>)
            ELSE IF Overruns(steps, Len(view), Len(data)) /\ ub_outcome = Crash
            THEN ImgThrown(Crash, <<map>> \o MemcpyCalls("device", steps))
            ELSE ImgResult(OK, <<map>> \o MemcpyCalls("device", steps) \o <<unmap>>,
                           WrittenBack(origin, region, row_pitch, slice_pitch,
                                       MemcpyAll(mapped, data, steps)),
                           <<>>, unmap.event)

\* Image::img_read_mapped(img_region, format, data_ptr, default_value)
img_read_mapped(img_region, format, cache, dev_pitch, ub_outcome) ==
    IF img_read_denied THEN ImgThrown(RuntimeError, <<>>)
    ELSE IF img_bad_region(img_region, format) THEN ImgThrown(RuntimeError, <<>>)
    ELSE LET origin == img_region.offset
             region == img_region.dimensions
             host == host_pitches(img_region, format)
             map == MapImageCall("CL_MAP_READ", origin, region, cache, dev_pitch)
             row_pitch == map.row_pitch
             slice_pitch == IF map.slice_pitch # 0 THEN map.slice_pitch
                            ELSE WrapImage(row_pitch * region[2])
             steps == copy_tiers(region, host, row_pitch, slice_pitch, FALSE)
             blank == HostBlank(region, host, host_pixel_size(format))
             view == MappedView(origin, region, row_pitch, slice_pitch)
             unmap == UnmapImageCall(origin, region)
         IN IF host.too_small THEN ImgThrown(RuntimeError, <<>>)
            ELSE IF map.status # CL_SUCCESS THEN ImgThrown(CLException, <<map>>)
            ELSE IF ~match_format(format) THEN ImgThrown(RuntimeError, <<map>>)
            ELSE IF Overruns(steps, Len(blank), Len(view)) /\ ub_outcome = Crash
            THEN ImgThrown(Crash, <<map>> \o MemcpyCalls("host", steps))
            ELSE ImgResult(OK, <<map>> \o MemcpyCalls("host", steps) \o <<unmap>>,
                           pixels, MemcpyAll(blank, view, steps), unmap.event)

\* Image::img_write(img_region, format, data_ptr, blocking, default_value)
img_write(img_region, format, blocking, cache, ub_outcome) ==
    IF img_write_denied THEN ImgThrown(RuntimeError, <<>>)
    ELSE IF img_bad_region(img_region, format) THEN ImgThrown(RuntimeError, <<>>)
    ELSE IF ~match_format(format) THEN ImgThrown(RuntimeError, <<>>)
    ELSE LET origin == img_region.offset
             region == img_region.dimensions
             host == host_pitches(img_region, format)
             slice_arg == IF m_image_desc.type # "Image2D" THEN host.slice_pitch ELSE 0
             call == RWImageCall("clEnqueueWriteImage", blocking, origin, region,
                                 host.row_pitch, slice_arg, cache)
             data == HostImage(region, host, host_pixel_size(format))
         IN IF host.too_small THEN ImgThrown(RuntimeError, <<>>)
            ELSE IF call.status # CL_SUCCESS
            THEN ImgThrown(check_throw_cl_error(call.status), <<call>>)
            ELSE IF DeviceExtent(region, host.row_pitch, slice_arg) > Len(data)
                    /\ ub_outcome = Crash
            THEN ImgThrown(Crash, <<call>>)
            ELSE ImgResult(OK, <<call>>,
                           DeviceWritten(origin, region, host.row_pitch, slice_arg, data),
                           <<>>, call.event)

\* Image::img_read(img_region, format, data_ptr, blocking, default_value)
img_read(img_region, format, blocking, cache, ub_outcome) ==
    IF img_read_denied THEN ImgThrown(RuntimeError, <<>>)
    ELSE IF img_bad_region(img_region, format) THEN ImgThrown(RuntimeError, <<>>)
    ELSE IF ~match_format(format) THEN ImgThrown(RuntimeError, <<>>)
    ELSE LET origin == img_region.offset
             region == img_region.dimensions
             host == host_pitches(img_region, format)
             slice_arg == host.slice_pitch
             call == RWImageCall("clEnqueueReadImage", blocking, origin, region,
                                 host.row_pitch, slice_arg, cache)
             blank == HostBlank(region, host, host_pixel_size(format))
         IN IF host.too_small THEN ImgThrown(RuntimeError, <<>>)
            ELSE IF call.status # CL_SUCCESS
            THEN ImgThrown(check_throw_cl_error(call.status), <<call>>)
            ELSE IF DeviceExtent(region, host.row_pitch, slice_arg) > Len(blank)
                    /\ ub_outcome = Crash
            THEN ImgThrown(Crash, <<call>>)
            ELSE ImgResult(OK, <<call>>, pixels,
                           DeviceRead(origin, region, host.row_pitch, slice_arg, blank),
                           call.event)

ImageOp(name, img_region, format, flag, deps) ==
    [name |-> name, region |-> img_region, format |-> format, flag |-> flag, deps |-> deps]

FinishImage(res, cache) ==
    /\ dev_calls' = res.calls
    /\ outcome' = res.outcome
    /\ pixels' = res.pixels
    /\ host_out' = res.out
    /\ ret_event' = res.ret
    /\ m_event_cache' = [m_event_cache EXCEPT !.Image = cache]
    /\ UNCHANGED <<eventVars, ownerVars, m_size, host_access, mem, m_image_desc, dep_list, kernel_args,
                   last_write>>

\* what a call can do: go on, or crash in a copy that leaves the memory it
\* was given
FinishEither(res_ok, res_crash, cache) ==
    \/ FinishImage(res_ok, cache)
    \/ res_crash.outcome = Crash /\ FinishImage(res_crash, cache)

\* Image::write(img_region, format, data_ptr, blocking, default_value)
ImageWrite(img_region, format, blocking) ==
    /\ Running
    /\ FinishEither(img_write(img_region, format, blocking, <<>>, OK),
                    img_write(img_region, format, blocking, <<>>, Crash), <<>>)
    /\ op' = ImageOp("Image::write", img_region, format, blocking, <<>>)

\* Image::read(img_region, format, data_ptr, blocking, default_value)
ImageRead(img_region, format, blocking) ==
    /\ Running
    /\ FinishEither(img_read(img_region, format, blocking, <<>>, OK),
                    img_read(img_region, format, blocking, <<>>, Crash), <<>>)
    /\ op' = ImageOp("Image::read", img_region, format, blocking, <<>>)

\* Image::write(img_region, format, data_ptr, dep_begin, dep_end, blocking,
\* default_value): default_value goes to img_write_mapped as its invalidate
ImageWriteDeps(img_region, format, invalidate) ==
    /\ Running
    /\ LET cache == CollectDeps(<<>>, dep_list)
       IN \E dev_pitch \in MapPitches(img_region.dimensions) :
             FinishEither(img_write_mapped(img_region, format, invalidate, cache,
                                           dev_pitch, OK),
                          img_write_mapped(img_region, format, invalidate, cache,
                                           dev_pitch, Crash), cache)
    /\ op' = ImageOp("Image::write(deps)", img_region, format, invalidate, dep_list)

\* Image::read(img_region, format, data_ptr, dep_begin, dep_end, blocking,
\* default_value)
ImageReadDeps(img_region, format) ==
    /\ Running
    /\ LET cache == CollectDeps(<<>>, dep_list)
       IN \E dev_pitch \in MapPitches(img_region.dimensions) :
             FinishEither(img_read_mapped(img_region, format, cache, dev_pitch, OK),
                          img_read_mapped(img_region, format, cache, dev_pitch, Crash),
                          cache)
    /\ op' = ImageOp("Image::read(deps)", img_region, format, FALSE, dep_list)

----------------------------------------------------------------------------
(* Device layer and class Image: fill *)

\* A value of a 4-byte unsigned type, written as its two 16-bit halves (the
\* value is hi16 * 2^16 + lo16): of n >= 0, and of 2^32 + t for t < 0
UInt32(n) == [hi16 |-> n \div 65536, lo16 |-> n % 65536]
UInt32Wrapped(t) ==
    [hi16 |-> 65535 - ((-t - 1) \div 65536), lo16 |-> 65535 - ((-t - 1) % 65536)]

\* static_cast of a float to an integer type: the fraction is dropped; a value
\* the type cannot hold is undefined behaviour, for which builds wrap around or
\* saturate. Floats are counted in halves and stay below 2^30 in size, so a
\* 4-byte signed type holds every one of them and a 4-byte unsigned type every
\* one that is not negative. The values of the 4-byte unsigned type are
\* written in halves, those of the other types as integers.
Truncated(f) == IF f >= 0 THEN f \div 2 ELSE -((-f) \div 2)
CastResults(f, int) ==
    LET t == Truncated(f)
        wide == int.size = 4
        lo == IF ~int.signed THEN 0
              ELSE IF wide THEN -2147483647 - 1 ELSE -(2^(8 * int.size - 1))
        fits == t >= lo /\ (wide \/ t <= lo + 2^(8 * int.size) - 1)
    IN IF wide /\ ~int.signed
       THEN IF fits THEN {UInt32(t)} ELSE {UInt32Wrapped(t), UInt32(0)}
       ELSE IF fits THEN {t}
       ELSE {lo + ((t - lo) % 2^(8 * int.size)),
             IF t < lo THEN lo ELSE lo + 2^(8 * int.size) - 1}

\* class FillColor: values <<r, g, b, a>>; get(channel_index)
FillColorGet(color, channel_index) == color[channel_index + 1]

\* a channel_indices that ignores the channel order of the image
rgba_channel_indices == <<0, 1, 2, 3>>

\* channel_indices of img_fill
channel_indices ==
    [i \in 1..4 |-> get_image_color_channel(m_image_desc.channel_order, i - 1)]

\* the integer type img_fill casts to, or "" for a size it does not know
FillIntType(base_type, type_size) ==
    [name |-> IF type_size \notin {1, 2, 4} THEN ""
              ELSE IF base_type = ChannelBaseType.Int THEN "int" ELSE "uint",
     size |-> type_size,
     signed |-> base_type = ChannelBaseType.Int]

\* the color_buffer contents img_fill can prepare: four floats, or four
\* integers of the channel type's size; {} when the size is not 1, 2 or 4
color_buffers(color) ==
    LET base_type == get_image_channel_base_type(m_image_desc.channel_type)
        type_size == get_image_channel_type_size(m_image_desc.channel_type)
        normalized_int == is_image_channel_format_normalized_integer(m_image_desc.channel_type)
        picked == [i \in 1..4 |-> FillColorGet(color, channel_indices[i])]
        int == FillIntType(base_type, type_size)
    IN IF base_type = ChannelBaseType.Float \/ normalized_int
       THEN {[type |-> "float", size |-> 4, values |-> picked]}
       ELSE IF int.name = "" THEN {}
       ELSE {[type |-> int.name, size |-> int.size, values |-> v] :
                v \in {w \in [1..4 -> UNION {CastResults(picked[i], int) : i \in 1..4}] :
                          \A i \in 1..4 : w[i] \in CastResults(picked[i], int)}}

\* clEnqueueFillImage(queue, image, color, origin, region, num_events, wait list, &ev)
clEnqueueFillImageStatus(origin, region, wait_list) ==
    IF ~InImage(origin, region) THEN CL_INVALID_VALUE
    ELSE IF HasNull(wait_list) \/ (\E k \in 1..Len(wait_list) : wait_list[k] \in finalized)
    THEN CL_INVALID_EVENT_WAIT_LIST
    ELSE CL_SUCCESS

FillCall(color_buffer, origin, region, wait_list) ==
    LET status == clEnqueueFillImageStatus(origin, region, wait_list)
    IN [call |-> "clEnqueueFillImage", color |-> color_buffer, origin |-> origin,
        region |-> region, wait_list |-> wait_list,
        event |-> IF status = CL_SUCCESS THEN NewEvent ELSE NULL, status |-> status]

\* the image after the fill: the device converts the color to the pixels of
\* the region, which the model does not follow
Filled(origin, region) ==
    WrittenBack(origin, region, region[1] * cl_pixel_size,
                region[1] * region[2] * cl_pixel_size,
                [j \in 1..(region[1] * region[2] * region[3] * cl_pixel_size) |->
                    Indeterminate])

\* Image::img_fill(color, img_region) with the color_buffer it prepared
img_fill(color, img_region, color_buffer, cache) ==
    IF img_write_denied THEN ImgThrown(RuntimeError, <<>>)
    ELSE IF ~(img_region.dimensions[1] # 0 /\ img_region.dimensions[2] # 0
              /\ img_region.dimensions[3] # 0)
    THEN ImgThrown(RuntimeError, <<>>)
    ELSE IF \E a \in 1..3 :
               WrapImage(img_region.offset[a] + img_region.dimensions[a])
                   > m_image_desc.dimensions[a]
    THEN ImgThrown(RuntimeError, <<>>)
    ELSE IF color_buffers(color) = {} THEN ImgThrown(RuntimeError, <<>>)
    ELSE LET call == FillCall(color_buffer, img_region.offset, img_region.dimensions, cache)
         IN IF call.status # CL_SUCCESS
            THEN ImgThrown(check_throw_cl_error(call.status), <<call>>)
            ELSE ImgResult(OK, <<call>>,
                           Filled(img_region.offset, img_region.dimensions),
                           <<>>, call.event)

\* the color_buffer to run img_fill with: any it can prepare, none if it
\* throws before
ColorBufferChoice(color) ==
    IF color_buffers(color) = {} THEN {[type |-> "", size |-> 0, values |-> <<>>]}
    ELSE color_buffers(color)

FillOp(color, img_region, deps) ==
    [name |-> "Image::fill", color |-> color, origin |-> img_region.offset,
     region |-> img_region.dimensions, deps |-> deps]

\* Image::fill(color, img_region)
ImageFill(color, img_region) ==
    /\ Running
    /\ \E color_buffer \in ColorBufferChoice(color) :
          FinishImage(img_fill(color, img_region, color_buffer, <<>>), <<>>)
    /\ op' = FillOp(color, img_region, <<>>)

\* the loop of Image::fill: m_event_cache.push_back(it->m_event) for every Event
RECURSIVE PushAll(_, _)
PushAll(cache, deps) ==
    IF deps = <<>> THEN cache ELSE PushAll(Append(cache, Head(deps)), Tail(deps))

\* Image::fill(color, img_region, dep_begin, dep_end)
ImageFillDeps(color, img_region) ==
    /\ Running
    /\ LET cache == PushAll(<<>>, dep_list)
       IN \E color_buffer \in ColorBufferChoice(color) :
             FinishImage(img_fill(color, img_region, color_buffer, cache), cache)
    /\ op' = FillOp(color, img_region, dep_list)

----------------------------------------------------------------------------
(* Specification of the operations called with a dependency range *)

\* the caller's Event collection: the Event in slot k holds its own event k or
\* no event at all
DepLists ==
    UNION {{[k \in 1..n |-> IF k \in S THEN k ELSE NULL] : S \in SUBSET (1..n)} :
           n \in 0..MaxDeps}

CallLengths == {0, 1, SizeMax}
CallOffsets == {0, 1}
CallCounts == {1, MaxElems}
ArgLists == {<<>>, <<4>>, <<8>>, <<4, 8>>, <<4, 8, 4>>}
CallNames == {"k", "missing"}
FillRegions == {<<0, 1, 1>>, <<1, 1, 1>>, <<2, 1, 1>>}
\* the first pixel of the image, in the host format of an RGBA / UINT8 image
CallPixel == ImageRegion(<<0, 0, 0>>, <<1, 1, 1>>)
CallFormat ==
    LET C == ColorChannel
    IN HostFormat(HostChannelOrder(4, <<C.R, C.G, C.B, C.A>>), HostDataType.UINT8, HostPitch(0, 0))

InitCalls ==
    /\ InitCommon
    /\ events = [i \in Tokens |-> Dead]
    /\ refcount = [h \in Handles |-> 0]
    /\ created = {}
    /\ finalized = {}
    /\ m_size = 1
    /\ host_access = ReadWrite
    /\ mem \in [1..m_size -> Bytes]
    /\ host_out = <<>>
    /\ m_event_cache = NoCaches
    /\ m_image_desc = ImageDesc("Image2D", <<2, 1, 1>>, ImageChannelOrder.RGBA,
                              ImageChannelType.UINT8, ReadWrite)
    /\ pixels = [i \in 1..(DeviceDimensions[1] * DeviceDimensions[2] * DeviceDimensions[3]
                            * cl_pixel_size) |-> 100 + i]
    /\ dep_list \in DepLists
    /\ kernel_args = {}
    /\ last_write = NoWrite

\* every operation that takes a dependency range, each with arguments that
\* pass and arguments that fail
NextCalls ==
    \/ \E length \in {0, SizeMax}, invalidate \in BOOLEAN :
           BufferWriteBytesDeps(length, 0, invalidate)
    \/ \E length \in {0, SizeMax} : BufferReadBytesDeps(length, 0)
    \/ \E n \in CallCounts : BufferWriteDeps(n, 1, 0, FALSE)
    \/ \E n \in CallCounts : BufferReadDeps(n, 1, 0)
    \/ \E name \in CallNames, args \in {<<>>, <<4, 8>>} : ProgramCallByName(name, args)
    \/ \E args \in {<<>>, <<4, 8>>} : ProgramCallByHandle(args)
    \/ \E region \in FillRegions :
           ImageFillDeps(<<510, 0, 0, 510>>, ImageRegion(<<0, 0, 0>>, region))
    \/ \E invalidate \in BOOLEAN : ImageWriteDeps(CallPixel, CallFormat, invalidate)
    \/ ImageReadDeps(CallPixel, CallFormat)

SpecCalls == InitCalls /\ [][NextCalls]_vars

----------------------------------------------------------------------------
(* Specification of a read/write Buffer used through the forms that take a   *)
(* dependency range                                                          *)

\* the buffer holds one element of the largest element type
LargestElem == CHOOSE e \in ElemSizes : \A f \in ElemSizes : f <= e

InitBufferDeps ==
    /\ InitCommon
    /\ events = [i \in Tokens |-> Dead]
    /\ refcount = [h \in Handles |-> 0]
    /\ created = {}
    /\ finalized = {}
    /\ m_size = LargestElem
    /\ host_access = ReadWrite
    /\ mem \in [1..m_size -> Bytes]
    /\ host_out = <<>>
    /\ m_event_cache = NoCaches
    /\ m_image_desc = NoImage
    /\ pixels = <<>>
    /\ dep_list \in DepLists
    /\ kernel_args = {}
    /\ last_write = NoWrite

NextBufferDeps ==
    \/ \E length \in CallLengths, offset \in CallOffsets, invalidate \in BOOLEAN :
           BufferWriteBytesDeps(length, offset, invalidate)
    \/ \E length \in CallLengths, offset \in CallOffsets :
           BufferReadBytesDeps(length, offset)
    \/ \E n \in CallCounts, esize \in ElemSizes, offset \in CallOffsets,
          invalidate \in BOOLEAN : BufferWriteDeps(n, esize, offset, invalidate)
    \/ \E n \in CallCounts, esize \in ElemSizes, offset \in CallOffsets :
           BufferReadDeps(n, esize, offset)

SpecBufferDeps == InitBufferDeps /\ [][NextBufferDeps]_vars

----------------------------------------------------------------------------
(* Claims about the operations called with a dependency range *)

SubmitCalls ==
    {"clEnqueueMapBuffer", "clEnqueueNDRangeKernel", "clEnqueueFillImage", "clEnqueueMapImage"}

\* C3: every operation that takes a dependency list passes to its device
\* submission call exactly the non-null handles of the list: a token holding a
\* null handle contributes no entry, every non-null handle is passed.
C3_NullTokensContributeNothing ==
    \A k \in 1..Len(dev_calls) :
        dev_calls[k].call \in SubmitCalls => dev_calls[k].wait_list = NonNull(op.deps)

\* the region a successful Buffer call maps, from its arguments
EffectiveOffset(o) ==
    IF o.name \in ByteForms THEN (IF o.length > 0 THEN o.offset ELSE 0)
    ELSE (o.offset * o.esize) % SizeMod
EffectiveLength(o) ==
    IF o.name \in ByteForms THEN (IF o.length > 0 THEN o.length ELSE m_size)
    ELSE (o.length * o.esize) % SizeMod

\* C10: every successful Buffer write or read submits exactly one blocking map
\* command for the effective region with the call's dependency list, then
\* copies on the host, then submits exactly one unmap command, and the token
\* it returns holds the event of the unmap command, not of the map.
C10_MapCopyUnmap ==
    (op.name \in ByteForms \cup TypedForms /\ outcome = OK) =>
        /\ Len(dev_calls) = 3
        /\ dev_calls[1].call = "clEnqueueMapBuffer"
        /\ dev_calls[1].blocking
        /\ dev_calls[1].offset = EffectiveOffset(op)
        /\ dev_calls[1].length = EffectiveLength(op)
        /\ dev_calls[1].wait_list = NonNull(op.deps)
        /\ dev_calls[2].call = "memcpy"
        /\ dev_calls[2].flags = (IF op.name \in WriteForms THEN "to device" ELSE "to host")
        /\ dev_calls[3].call = "clEnqueueUnmapMemObject"
        /\ ret_event # NULL
        /\ ret_event = dev_calls[3].event
        /\ ret_event # dev_calls[1].event

C10_Witness ==
    /\ op.name = "Buffer::write" /\ outcome = OK
    /\ op.esize > 1
    /\ Len(NonNull(op.deps)) > 0 /\ Len(NonNull(op.deps)) < Len(op.deps)
    /\ Len(dev_calls) = 3
    /\ dev_calls[1].wait_list = NonNull(op.deps)
    /\ ret_event = dev_calls[3].event

----------------------------------------------------------------------------
(* Specification of match_format on every image format *)

\* the channel arrays and channel counts of the caller's host formats
HostChannelArrays ==
    LET C == ColorChannel
    IN {<<C.R, C.R, C.R, C.R>>, <<C.R, C.G, C.G, C.G>>, <<C.R, C.G, C.B, C.A>>,
        <<C.B, C.G, C.R, C.A>>, <<C.G, C.R, C.G, C.G>>, <<C.R, C.G, C.A, C.B>>}
HostChannelCounts == {1, 2, 3, 4}

NoPitch == HostPitch(0, 0)

MatchedFormats ==
    {HostFormat(HostChannelOrder(n, ch), t, NoPitch) :
        n \in HostChannelCounts, ch \in HostChannelArrays, t \in Enumerators(HostDataType)}

InitFormat ==
    /\ InitCommon
    /\ events = [i \in Tokens |-> Dead]
    /\ refcount = [h \in Handles |-> 0]
    /\ created = {}
    /\ finalized = {}
    /\ m_size = 0
    /\ host_access = NoAccess
    /\ mem = <<>>
    /\ host_out = <<>>
    /\ m_event_cache = NoCaches
    /\ \E order \in Enumerators(ImageChannelOrder), type \in Enumerators(ImageChannelType) :
          m_image_desc = ImageDesc("Image2D", <<1, 1, 1>>, order, type, ReadWrite)
    /\ pixels = <<>>
    /\ dep_list = <<>>
    /\ kernel_args = {}
    /\ last_write = NoWrite

NextFormat == \E format \in MatchedFormats : MatchFormat(format)

SpecFormat == InitFormat /\ [][NextFormat]_vars

\* what the enumerators stand for, by their names
DeviceBase ==
    LET cl == m_image_desc.channel_type.cl
    IN IF cl \in {"CL_SNORM_INT8", "CL_SNORM_INT16", "CL_SIGNED_INT8", "CL_SIGNED_INT16",
                  "CL_SIGNED_INT32"} THEN "int"
       ELSE IF cl \in {"CL_HALF_FLOAT", "CL_FLOAT"} THEN "float"
       ELSE "uint"
DeviceComponents ==
    LET cl == m_image_desc.channel_order.cl
    IN IF cl = "CL_R" THEN <<"R">>
       ELSE IF cl = "CL_RG" THEN <<"R", "G">>
       ELSE IF cl = "CL_BGRA" THEN <<"B", "G", "R", "A">>
       ELSE <<"R", "G", "B", "A">>
HostBase(format) ==
    LET T == HostDataType
    IN IF format.channel_type \in {T.INT8, T.INT16, T.INT32} THEN "int"
       ELSE IF format.channel_type \in {T.HALF, T.FLOAT} THEN "float"
       ELSE "uint"
ChannelName(c) == CHOOSE n \in DOMAIN ColorChannel : ColorChannel[n] = c
HostComponents(format) ==
    [i \in 1..format.channel_order.num_channels |->
        ChannelName(format.channel_order.channels[i])]

\* C11: match_format returns true exactly when the host base category equals
\* the device base category, the host component count equals the device
\* component count and the host component at every position below that count
\* is the device component of the same position
C11_MatchFormatExact ==
    op.name = "Image::match_format" =>
        ((outcome = "true") <=>
            /\ HostBase(op.format) = DeviceBase
            /\ Len(HostComponents(op.format)) = Len(DeviceComponents)
            /\ \A i \in 1..Len(DeviceComponents) :
                  HostComponents(op.format)[i] = DeviceComponents[i])

\* a BGRA image accepts the host format that lists B, G, R, A
C11_Witness ==
    /\ op.name = "Image::match_format"
    /\ outcome = "true"
    /\ DeviceComponents = <<"B", "G", "R", "A">>
    /\ HostComponents(op.format) = <<"B", "G", "R", "A">>

----------------------------------------------------------------------------
(* Specification of Image::write and Image::read with the host formats of    *)
(* the caller, on the whole image                                            *)

\* the contents of a new image: byte i holds 100 + i
NewPixels ==
    [i \in 1..(DeviceDimensions[1] * DeviceDimensions[2] * DeviceDimensions[3]
               * cl_pixel_size) |-> 100 + i]

WholeImage == ImageRegion(<<0, 0, 0>>, m_image_desc.dimensions)

FormatOrders ==
    LET C == ColorChannel
    IN {HostChannelOrder(1, <<C.R, C.R, C.R, C.R>>), HostChannelOrder(2, <<C.R, C.G, C.G, C.G>>),
        HostChannelOrder(2, <<C.G, C.R, C.G, C.G>>)}
FormatTypes == {HostDataType.INT8, HostDataType.INT16, HostDataType.UINT8, HostDataType.FLOAT}
CallFormats == {HostFormat(o, t, NoPitch) : o \in FormatOrders, t \in FormatTypes}

InitImageFormat ==
    /\ InitCommon
    /\ events = [i \in Tokens |-> Dead]
    /\ refcount = [h \in Handles |-> 0]
    /\ created = {}
    /\ finalized = {}
    /\ m_size = 0
    /\ host_access = NoAccess
    /\ mem = <<>>
    /\ host_out = <<>>
    /\ m_event_cache = NoCaches
    /\ \E order \in {ImageChannelOrder.R, ImageChannelOrder.RG},
          type \in {ImageChannelType.INT8, ImageChannelType.INT16, ImageChannelType.UINT8} :
          m_image_desc = ImageDesc("Image2D", <<2, 1, 1>>, order, type, ReadWrite)
    /\ pixels = NewPixels
    /\ dep_list = <<>>
    /\ kernel_args = {}
    /\ last_write = NoWrite

NextImageFormat ==
    \/ \E format \in CallFormats, blocking \in BOOLEAN :
          ImageWrite(WholeImage, format, blocking)
    \/ \E format \in CallFormats, blocking \in BOOLEAN :
          ImageRead(WholeImage, format, blocking)
    \/ \E format \in CallFormats, invalidate \in BOOLEAN :
          ImageWriteDeps(WholeImage, format, invalidate)
    \/ \E format \in CallFormats : ImageReadDeps(WholeImage, format)

SpecImageFormat == InitImageFormat /\ [][NextImageFormat]_vars

ImageWriteForms == {"Image::write", "Image::write(deps)"}
ImageReadForms == {"Image::read", "Image::read(deps)"}
ImageMappedForms == {"Image::write(deps)", "Image::read(deps)"}
ImageForms == ImageWriteForms \cup ImageReadForms

HostCopies == {k \in 1..Len(dev_calls) : dev_calls[k].call = "memcpy"}
Failed == outcome \in {RuntimeError, CLException}

\* C12: with a host format whose base category or component count is not
\* the image's, match_format returns false and Image::write and Image::read,
\* mapped or not, fail with an error and no host-side copy has been made
C12_MismatchFailsWithoutCopy ==
    (/\ op.name \in ImageForms
     /\ \/ HostBase(op.format) # DeviceBase
        \/ op.format.channel_order.num_channels # Len(DeviceComponents)) =>
        /\ ~match_format(op.format)
        /\ Failed
        /\ HostCopies = {}
        /\ host_out = <<>>

\* a mapped write with a host format of another base category fails once the
\* region has been mapped
C12_Witness ==
    /\ op.name = "Image::write(deps)"
    /\ HostBase(op.format) # DeviceBase
    /\ op.format.channel_order.num_channels = Len(DeviceComponents)
    /\ outcome = RuntimeError
    /\ Len(dev_calls) = 1 /\ dev_calls[1].call = "clEnqueueMapImage"

\* what the caller got wrong in an Image::write or Image::read
WrongDirection(o) ==
    \/ o.name \in ImageWriteForms /\ m_image_desc.host_access \in {NoAccess, ReadOnly}
    \/ o.name \in ImageReadForms /\ m_image_desc.host_access \in {NoAccess, WriteOnly}
EmptyRegion(dimensions) == \E a \in 1..3 : dimensions[a] = 0
OutOfImage(offset, dimensions) ==
    \E a \in 1..3 : offset[a] + dimensions[a] > m_image_desc.dimensions[a]
SlicePitchOnFlatImage(o) ==
    m_image_desc.type \in {"Image1D", "Image2D"} /\ o.format.pitch.slice_pitch # 0
BytesPerHostPixel(format) ==
    (IF format.channel_type \in {HostDataType.INT8, HostDataType.UINT8} THEN 1
     ELSE IF format.channel_type \in {HostDataType.INT16, HostDataType.UINT16,
                                      HostDataType.HALF} THEN 2
     ELSE 4) * format.channel_order.num_channels
InvalidPitch(o) ==
    LET needed == o.region.dimensions[1] * BytesPerHostPixel(o.format)
        row == IF o.format.pitch.row_pitch # 0 THEN o.format.pitch.row_pitch ELSE needed
    IN \/ SlicePitchOnFlatImage(o)
       \/ row < needed
       \/ /\ o.format.pitch.slice_pitch # 0
          /\ o.format.pitch.slice_pitch < o.region.dimensions[2] * row
FormatMismatch(o) ==
    \/ HostBase(o.format) # DeviceBase
    \/ HostComponents(o.format) # DeviceComponents

\* C13: Image::write and Image::read (mapped or not) and Image::fill detect
\* every precondition violation (wrong access direction, empty region, region
\* out of range, invalid pitch, mismatched format) in host logic: the error
\* is raised and no device command has been submitted
C13_ViolationsCaughtBeforeDevice ==
    /\ (/\ op.name \in ImageForms
        /\ \/ WrongDirection(op)
           \/ EmptyRegion(op.region.dimensions)
           \/ OutOfImage(op.region.offset, op.region.dimensions)
           \/ InvalidPitch(op)
           \/ FormatMismatch(op)) =>
          (outcome = RuntimeError /\ dev_calls = <<>>)
    /\ (/\ op.name = "Image::fill"
        /\ \/ m_image_desc.host_access \in {NoAccess, ReadOnly}
           \/ EmptyRegion(op.region)
           \/ OutOfImage(op.origin, op.region)) =>
          (outcome = RuntimeError /\ dev_calls = <<>>)

\* bytes per channel of the host type and of the image type, by their names
HostWidth(format) ==
    IF format.channel_type \in {HostDataType.INT8, HostDataType.UINT8} THEN 1
    ELSE IF format.channel_type \in {HostDataType.INT16, HostDataType.UINT16,
                                     HostDataType.HALF} THEN 2
    ELSE 4
DeviceWidth ==
    LET cl == m_image_desc.channel_type.cl
    IN IF cl \in {"CL_SNORM_INT8", "CL_UNORM_INT8", "CL_SIGNED_INT8", "CL_UNSIGNED_INT8"}
       THEN 1
       ELSE IF cl \in {"CL_SIGNED_INT32", "CL_UNSIGNED_INT32", "CL_FLOAT"} THEN 4
       ELSE 2

Transfers ==
    {k \in 1..Len(dev_calls) :
        dev_calls[k].call \in {"memcpy", "clEnqueueWriteImage", "clEnqueueReadImage"}}

\* C14: Image::write and Image::read throw whenever the byte width of the
\* host channel type is not the byte width of the image channel type, also
\* when base category and channel order match, and transfer nothing
C14_WidthMismatchThrows ==
    (op.name \in ImageForms /\ HostWidth(op.format) # DeviceWidth) =>
        (Failed /\ Transfers = {})

----------------------------------------------------------------------------
(* Specification of Image::write, Image::read and Image::fill on the regions *)
(* of the caller, with the host format of the image                          *)

\* the whole image, one pixel inside it, a region that leaves the image, one
\* whose offset + dimension wraps around in std::size_t, an empty one
CallRegions ==
    {ImageRegion(<<0, 0, 0>>, m_image_desc.dimensions),
     ImageRegion(<<0, 1, 0>>, <<1, 1, 1>>),
     ImageRegion(<<0, 1, 0>>, m_image_desc.dimensions),
     ImageRegion(<<ImageSizeMax, 0, 0>>, <<1, 1, 1>>),
     ImageRegion(<<0, 0, 0>>, <<0, 1, 1>>)}

\* the host format of an R / INT8 image, without and with a slice pitch
RegionFormats ==
    {HostFormat(HostChannelOrder(1, <<0, 0, 0, 0>>), HostDataType.INT8, HostPitch(0, s)) :
        s \in {0, 4}}

RedFill == <<510, 0, 0, 510>>

InitImageRegion ==
    /\ InitCommon
    /\ events = [i \in Tokens |-> Dead]
    /\ refcount = [h \in Handles |-> 0]
    /\ created = {}
    /\ finalized = {}
    /\ m_size = 0
    /\ host_access = NoAccess
    /\ mem = <<>>
    /\ host_out = <<>>
    /\ m_event_cache = NoCaches
    /\ \/ m_image_desc = ImageDesc("Image2D", <<2, 2, 1>>, ImageChannelOrder.R,
                                   ImageChannelType.INT8, ReadWrite)
       \/ m_image_desc = ImageDesc("Image3D", <<1, 2, 2>>, ImageChannelOrder.R,
                                   ImageChannelType.INT8, ReadWrite)
       \/ m_image_desc = ImageDesc("Image1DArray", <<2, 2, 1>>, ImageChannelOrder.R,
                                   ImageChannelType.INT8, ReadWrite)
       \/ m_image_desc = ImageDesc("Image1D", <<2, 2, 1>>, ImageChannelOrder.R,
                                   ImageChannelType.INT8, ReadWrite)
    /\ pixels = NewPixels
    /\ dep_list = <<>>
    /\ kernel_args = {}
    /\ last_write = NoWrite

NextImageRegion ==
    \/ \E img_region \in CallRegions, format \in RegionFormats :
          ImageWrite(img_region, format, TRUE)
    \/ \E img_region \in CallRegions, format \in RegionFormats :
          ImageRead(img_region, format, TRUE)
    \/ \E img_region \in CallRegions, format \in RegionFormats :
          ImageWriteDeps(img_region, format, FALSE)
    \/ \E img_region \in CallRegions, format \in RegionFormats :
          ImageReadDeps(img_region, format)
    \/ \E img_region \in CallRegions : ImageFill(RedFill, img_region)

SpecImageRegion == InitImageRegion /\ [][NextImageRegion]_vars

\* C15: Image::write and Image::read are rejected by the region validation
\* when offset + dimension (the true sum) exceeds the image on an axis, when
\* a dimension of the region is 0 and, for 1D and 2D images, when the host
\* slice pitch is not 0; Image::fill applies the empty-region and the bounds
\* check; a region that passes is accepted
C15_RegionValidation ==
    /\ (/\ op.name \in ImageForms
        /\ \/ EmptyRegion(op.region.dimensions)
           \/ OutOfImage(op.region.offset, op.region.dimensions)
           \/ SlicePitchOnFlatImage(op)) => outcome = RuntimeError
    /\ (/\ op.name = "Image::fill"
        /\ EmptyRegion(op.region) \/ OutOfImage(op.origin, op.region)) =>
          outcome = RuntimeError
    /\ (/\ op.name \in ImageForms
        /\ ~EmptyRegion(op.region.dimensions)
        /\ ~OutOfImage(op.region.offset, op.region.dimensions)
        /\ ~SlicePitchOnFlatImage(op)) => outcome # RuntimeError
    /\ (/\ op.name = "Image::fill"
        /\ ~EmptyRegion(op.region) /\ ~OutOfImage(op.origin, op.region)) =>
          outcome # RuntimeError

----------------------------------------------------------------------------
(* Specification of the mapped Image::write and Image::read with the host    *)
(* pitches of the caller and the pitches the device maps with                *)

CopyRegions == {WholeImage, ImageRegion(<<0, 1, 0>>, <<1, 1, 1>>)}
CopyRowPitches == {0, 2, 3}
CopySlicePitches == {0, 3, 4, 6}
CopyFormats ==
    {HostFormat(HostChannelOrder(1, <<0, 0, 0, 0>>), HostDataType.INT8, HostPitch(r, s)) :
        r \in CopyRowPitches, s \in CopySlicePitches}

InitImageCopy ==
    /\ InitCommon
    /\ events = [i \in Tokens |-> Dead]
    /\ refcount = [h \in Handles |-> 0]
    /\ created = {}
    /\ finalized = {}
    /\ m_size = 0
    /\ host_access = NoAccess
    /\ mem = <<>>
    /\ host_out = <<>>
    /\ m_event_cache = NoCaches
    /\ \/ m_image_desc = ImageDesc("Image2D", <<2, 2, 1>>, ImageChannelOrder.R,
                                   ImageChannelType.INT8, ReadWrite)
       \/ m_image_desc = ImageDesc("Image3D", <<1, 2, 2>>, ImageChannelOrder.R,
                                   ImageChannelType.INT8, ReadWrite)
    /\ pixels = NewPixels
    /\ dep_list = <<>>
    /\ kernel_args = {}
    /\ last_write = NoWrite

NextImageCopy ==
    \/ \E img_region \in CopyRegions, format \in CopyFormats, invalidate \in BOOLEAN :
          ImageWriteDeps(img_region, format, invalidate)
    \/ \E img_region \in CopyRegions, format \in CopyFormats :
          ImageReadDeps(img_region, format)

SpecImageCopy == InitImageCopy /\ [][NextImageCopy]_vars

\* the pitches of the host image of the last call and those of its mapping
HostRow(o) ==
    IF o.format.pitch.row_pitch # 0 THEN o.format.pitch.row_pitch
    ELSE o.region.dimensions[1] * BytesPerHostPixel(o.format)
HostSlice(o) ==
    IF o.format.pitch.slice_pitch # 0 THEN o.format.pitch.slice_pitch
    ELSE o.region.dimensions[2] * HostRow(o)
MappedRow == dev_calls[1].row_pitch
MappedSlice ==
    IF dev_calls[1].slice_pitch # 0 THEN dev_calls[1].slice_pitch
    ELSE MappedRow * op.region.dimensions[2]

MappedTransferDone ==
    op.name \in ImageMappedForms /\ outcome = OK

\* the copy tier a finished mapped transfer took
WholeRegionTier == Cardinality(HostCopies) = 1 /\ HostSlice(op) = MappedSlice
PerSliceTier == HostSlice(op) # MappedSlice /\ HostRow(op) = MappedRow
RowByRowTier == HostSlice(op) # MappedSlice /\ HostRow(op) # MappedRow

\* the bytes of pixel (x, y, z) of the region of the last call
RegionBytes ==
    {<<x, y, z, b>> : x \in 0..(op.region.dimensions[1] - 1),
                      y \in 0..(op.region.dimensions[2] - 1),
                      z \in 0..(op.region.dimensions[3] - 1),
                      b \in 0..(cl_pixel_size - 1)}
PixelByte(t) ==
    pixels[PixelIndex(op.region.offset[1] + t[1], op.region.offset[2] + t[2],
                      op.region.offset[3] + t[3], t[4]) + 1]
HostOffset(t) == t[3] * HostSlice(op) + t[2] * HostRow(op) + t[1] * cl_pixel_size + t[4]
\* what the caller's host image holds for the pixel byte
HostByte(t) ==
    1 + (t[3] * op.region.dimensions[2] + t[2]) * op.region.dimensions[1] * cl_pixel_size
      + t[1] * cl_pixel_size + t[4]

\* every pixel byte of the region went to its place in the destination
LogicalContentTransferred ==
    IF op.name \in ImageWriteForms
    THEN \A t \in RegionBytes : PixelByte(t) = HostByte(t)
    ELSE \A t \in RegionBytes : host_out[HostOffset(t) + 1] = PixelByte(t)

\* C16: a mapped transfer whose host row and slice pitch are the pitches of
\* the mapping copies the whole region at once and leaves every pixel byte of
\* the region where the slice-by-slice and the row-by-row copies, taken with
\* other pitches, leave it
C16_TiersEquivalent ==
    MappedTransferDone =>
        /\ (HostRow(op) = MappedRow /\ HostSlice(op) = MappedSlice) =>
              (WholeRegionTier /\ LogicalContentTransferred)
        /\ PerSliceTier =>
              (Cardinality(HostCopies) = op.region.dimensions[3] /\ LogicalContentTransferred)
        /\ RowByRowTier =>
              /\ Cardinality(HostCopies) = op.region.dimensions[3] * op.region.dimensions[2]
              /\ LogicalContentTransferred

\* a mapped write of both slices of the 3D image with padded rows and slices
\* on both sides took the whole-region copy
C16_Witness ==
    /\ op.name = "Image::write(deps)" /\ outcome = OK
    /\ op.region.dimensions[3] = 2
    /\ HostRow(op) = MappedRow /\ HostSlice(op) = MappedSlice
    /\ MappedRow = 2 /\ MappedSlice = 6
    /\ WholeRegionTier

----------------------------------------------------------------------------
\* The direct transfers, checked on SpecImageFormat (a two-dimensional image).

DirectTransfers == {"Image::write", "Image::read"}

DirectCommands == {"clEnqueueWriteImage", "clEnqueueReadImage"}

\* C17: in the direct path, read and write, a copy command is submitted only
\* after match_format has accepted the host format, and on an Image2D image the
\* slice pitch handed to that command is zero.
C17_DirectPathSlicePitch ==
    (op.name \in DirectTransfers /\ Len(dev_calls) > 0)
        => /\ match_format(op.format)
           /\ \A i \in 1..Len(dev_calls) :
                 (dev_calls[i].call \in DirectCommands /\ m_image_desc.type = "Image2D")
                     => dev_calls[i].slice_pitch = 0

----------------------------------------------------------------------------
(* Specification of Image::fill on images of several channel orders and types *)

\* a channel type outside the enumerators, which the constructor hands to the
\* device unexamined: the constant of UINT32 with a size of 8 bytes
WideChannelType == Enum64("CL_UNSIGNED_INT32", ChannelTypeBits(8, ChannelBaseType.UInt, 0))

FillOrders ==
    {ImageChannelOrder.R, ImageChannelOrder.RG, ImageChannelOrder.RGBA, ImageChannelOrder.BGRA}
FillTypes ==
    LET T == ImageChannelType
    IN {T.UNORM_INT8, T.FLOAT, T.INT8, T.INT16, T.INT32, T.UINT8, T.UINT16, T.UINT32,
        WideChannelType}

\* FillColor(255, 0, 0, 255), FillColor(1, 2, 3, 4), FillColor(1.5, 300, 70000, 0.5),
\* FillColor(-1.5, -200, -70000, -0.5)
FillColors ==
    {<<510, 0, 0, 510>>, <<2, 4, 6, 8>>, <<3, 600, 140000, 1>>, <<-3, -400, -140000, -1>>}

InitImageFill ==
    /\ InitCommon
    /\ events = [i \in Tokens |-> Dead]
    /\ refcount = [h \in Handles |-> 0]
    /\ created = {}
    /\ finalized = {}
    /\ m_size = 0
    /\ host_access = NoAccess
    /\ mem = <<>>
    /\ host_out = <<>>
    /\ m_event_cache = NoCaches
    /\ \E order \in FillOrders, type \in FillTypes :
          m_image_desc = ImageDesc("Image2D", <<1, 1, 1>>, order, type, ReadWrite)
    /\ pixels = NewPixels
    /\ dep_list = <<>>
    /\ kernel_args = {}
    /\ last_write = NoWrite

NextImageFill ==
    \/ \E color \in FillColors : ImageFill(color, WholeImage)
    \/ \E color \in FillColors : ImageFillDeps(color, WholeImage)

SpecImageFill == InitImageFill /\ [][NextImageFill]_vars

\* what the image's format stands for, by the names of the device constants
SlotNames ==
    LET cl == m_image_desc.channel_order.cl
    IN IF cl = "CL_R" THEN <<"R", "R", "R", "R">>
       ELSE IF cl = "CL_RG" THEN <<"R", "G", "G", "G">>
       ELSE IF cl = "CL_BGRA" THEN <<"B", "G", "R", "A">>
       ELSE <<"R", "G", "B", "A">>
NamedComponent(color, n) ==
    IF n = "R" THEN color[1] ELSE IF n = "G" THEN color[2]
    ELSE IF n = "B" THEN color[3] ELSE color[4]
StoresFloats ==
    m_image_desc.channel_type.cl \in {"CL_SNORM_INT8", "CL_SNORM_INT16", "CL_UNORM_INT8",
                                      "CL_UNORM_INT16", "CL_HALF_FLOAT", "CL_FLOAT"}
StoresSigned ==
    m_image_desc.channel_type.cl \in {"CL_SIGNED_INT8", "CL_SIGNED_INT16", "CL_SIGNED_INT32"}
ByteWidth == m_image_desc.channel_type.lo \div 65536

\* n is the float f, counted in halves, without its fraction
IsIntegerPart(n, f) ==
    IF f >= 0 THEN 2 * n <= f /\ f < 2 * n + 2 ELSE 2 * n >= f /\ f > 2 * n - 2

\* n is what a cast of f to the integer type of this width can store: the
\* integer part where the type holds it, some value of the type otherwise
\* (a value of the 4-byte unsigned type is read from its halves)
IsCastOf(n, f, signed, width) ==
    IF width = 4
    THEN IF signed THEN IsIntegerPart(n, f)
         ELSE /\ n.hi16 \in 0..65535 /\ n.lo16 \in 0..65535
              /\ f > -2 => n.hi16 < 32768 /\ IsIntegerPart(n.hi16 * 65536 + n.lo16, f)
    ELSE LET lo == IF signed THEN -(2^(8 * width - 1)) ELSE 0
             hi == lo + 2^(8 * width) - 1
         IN /\ n \in lo..hi
            /\ (f > 2 * lo - 2 /\ f < 2 * hi + 2) => IsIntegerPart(n, f)

FillSubmitted == op.name = "Image::fill" /\ Len(dev_calls) > 0

\* C18: Image::fill hands the device a 4-slot color whose slot i is the
\* component of the color named by the i-th identifier of the image's channel
\* order, stored as a raw float for float and normalized formats, cast to the
\* signed integer type of the format's width (1, 2 or 4 bytes) for signed
\* formats and to the unsigned one for unsigned formats; with any other width
\* the fill fails with an error and nothing is submitted
C18_FillColorEncoding ==
    op.name = "Image::fill" =>
        IF ~StoresFloats /\ ByteWidth \notin {1, 2, 4}
        THEN outcome = RuntimeError /\ dev_calls = <<>>
        ELSE /\ FillSubmitted
             /\ LET buffer == dev_calls[1].color
                    named == [i \in 1..4 |-> NamedComponent(op.color, SlotNames[i])]
                IN /\ Len(buffer.values) = 4
                   /\ IF StoresFloats
                      THEN buffer.type = "float" /\ buffer.values = named
                      ELSE /\ buffer.type = (IF StoresSigned THEN "int" ELSE "uint")
                           /\ buffer.size = ByteWidth
                           /\ \A i \in 1..4 :
                                 IsCastOf(buffer.values[i], named[i], StoresSigned, ByteWidth)

\* an RGBA / UINT8 image filled with (255, 0, 0, 255) gets the pixel
\* {255, 0, 0, 255} in one-byte unsigned slots
C18_Witness ==
    /\ FillSubmitted
    /\ m_image_desc.channel_order = ImageChannelOrder.RGBA
    /\ m_image_desc.channel_type = ImageChannelType.UINT8
    /\ op.color = <<510, 0, 0, 510>>
    /\ dev_calls[1].color = [type |-> "uint", size |-> 1, values |-> <<255, 0, 0, 255>>]
    /\ outcome = OK

----------------------------------------------------------------------------
(* Specification of a Program called by kernel name and by kernel handle,     *)
(* with and without a dependency range                                        *)

InitProgram ==
    /\ InitCommon
    /\ events = [i \in Tokens |-> Dead]
    /\ refcount = [h \in Handles |-> 0]
    /\ created = {}
    /\ finalized = {}
    /\ m_size = 0
    /\ host_access = NoAccess
    /\ mem = <<>>
    /\ host_out = <<>>
    /\ m_event_cache = NoCaches
    /\ m_image_desc = NoImage
    /\ pixels = <<>>
    /\ dep_list \in DepLists
    /\ kernel_args = {}
    /\ last_write = NoWrite

\* the argument lists, and one more whose first argument is rejected and
\* whose second would be accepted
BindLists == ArgLists \cup {<<8, 8>>}

NextProgram ==
    \/ \E name \in CallNames, args \in BindLists : ProgramCallByName(name, args)
    \/ \E args \in BindLists : ProgramCallByHandle(args)
    \/ \E name \in CallNames, args \in BindLists : ProgramRunByName(name, args)
    \/ \E args \in BindLists : ProgramRunByHandle(args)

SpecProgram == InitProgram /\ [][NextProgram]_vars

ByNameForms == {"Program::operator()(name)", "Program::operator()(name, no deps)"}

UnknownName == op.name \in ByNameForms /\ op.kernel \notin KernelNames

\* C19: a call by a kernel name the program does not hold, with or without
\* arguments, with or without dependencies, fails with the lookup error, which
\* is not the CLException of a failed device call, and has neither bound an
\* argument nor submitted a dispatch
C19_UnknownKernelName ==
    UnknownName =>
        /\ outcome = RuntimeError
        /\ outcome # CLException
        /\ dev_calls = <<>>
        /\ ret_event = NULL

\* the call by an unknown name with two arguments and a dependency list has
\* failed with the lookup error
C19_Witness ==
    /\ UnknownName
    /\ op.name = "Program::operator()(name)"
    /\ Len(op.args) = 2
    /\ Len(op.deps) > 0
    /\ outcome = RuntimeError

----------------------------------------------------------------------------
(* Specification of a Program, a Buffer and an Image called in any order,     *)
(* with and without a dependency range, the caller's Event collection         *)
(* changing between the calls                                                 *)

\* one pixel of one unsigned byte, and the host format that matches it
ScratchFormat ==
    HostFormat(HostChannelOrder(1, <<ColorChannel.R, ColorChannel.R, ColorChannel.R,
                                     ColorChannel.R>>),
               HostDataType.UINT8, NoPitch)
ScratchColor == <<510, 0, 0, 510>>
ScratchArgs == {<<4, 8>>}

\* the caller's Event collections: none, an Event without an event, an Event
\* with its own
ScratchDeps == {d \in DepLists : Len(d) <= 1}

InitScratch ==
    /\ InitCommon
    /\ events = [i \in Tokens |-> Dead]
    /\ refcount = [h \in Handles |-> 0]
    /\ created = {}
    /\ finalized = {}
    /\ m_size = 1
    /\ host_access = ReadWrite
    /\ mem = [i \in 1..m_size |-> 0]
    /\ host_out = <<>>
    /\ m_event_cache = NoCaches
    /\ m_image_desc = ImageDesc("Image2D", <<1, 1, 1>>, ImageChannelOrder.R,
                              ImageChannelType.UINT8, ReadWrite)
    /\ pixels = NewPixels
    /\ dep_list = <<>>
    /\ kernel_args = {}
    /\ last_write = NoWrite

\* the caller fills its Event collection for the next call
ChooseDeps(deps) ==
    /\ Running
    /\ dep_list' = deps
    /\ UNCHANGED <<eventVars, ownerVars, op, dev_calls, outcome, ret_event, m_size, host_access, mem,
                   host_out, m_event_cache, m_image_desc, pixels, kernel_args, last_write>>

NextScratch ==
    \/ \E deps \in ScratchDeps : ChooseDeps(deps)
    \/ \E name \in CallNames, args \in ScratchArgs : ProgramCallByName(name, args)
    \/ \E name \in CallNames, args \in ScratchArgs : ProgramRunByName(name, args)
    \/ BufferWriteBytesDeps(1, 0, FALSE)
    \/ BufferWriteBytes(1, 0, FALSE)
    \/ BufferReadBytesDeps(1, 0)
    \/ BufferReadBytes(1, 0)
    \/ ImageWriteDeps(WholeImage, ScratchFormat, FALSE)
    \/ ImageWrite(WholeImage, ScratchFormat, TRUE)
    \/ ImageReadDeps(WholeImage, ScratchFormat)
    \/ ImageRead(WholeImage, ScratchFormat, TRUE)
    \/ ImageFillDeps(ScratchColor, WholeImage)
    \/ ImageFill(ScratchColor, WholeImage)

SpecScratch == InitScratch /\ [][NextScratch]_vars

\* the device calls that take a list of events to wait for from the scratch list
ScratchCalls ==
    SubmitCalls \cup {"clEnqueueMapImage", "clEnqueueWriteImage", "clEnqueueReadImage"}

\* C20: after any sequence of calls on a Program, a Buffer and an Image, with
\* or without dependency lists, succeeding or failing, the list of events
\* passed to each device submission of a call is exactly the non-null handles
\* supplied to that very call
C20_ScratchListPerCall ==
    \A k \in 1..Len(dev_calls) :
        dev_calls[k].call \in ScratchCalls => dev_calls[k].wait_list = NonNull(op.deps)

----------------------------------------------------------------------------
(* Specification of Image::write and Image::read, direct and mapped, with     *)
(* host pitches that are left out, too small, exact and padded                *)

PitchRowPitches == {0, 1, 2, 3}
PitchSlicePitches == {0, 3, 4, 6, 7}
PitchFormats ==
    {HostFormat(HostChannelOrder(1, <<0, 0, 0, 0>>), HostDataType.INT8, HostPitch(r, s)) :
        r \in PitchRowPitches, s \in PitchSlicePitches}

InitImagePitch ==
    /\ InitCommon
    /\ events = [i \in Tokens |-> Dead]
    /\ refcount = [h \in Handles |-> 0]
    /\ created = {}
    /\ finalized = {}
    /\ m_size = 0
    /\ host_access = NoAccess
    /\ mem = <<>>
    /\ host_out = <<>>
    /\ m_event_cache = NoCaches
    /\ \/ m_image_desc = ImageDesc("Image2D", <<2, 2, 1>>, ImageChannelOrder.R,
                                   ImageChannelType.INT8, ReadWrite)
       \/ m_image_desc = ImageDesc("Image3D", <<2, 2, 2>>, ImageChannelOrder.R,
                                   ImageChannelType.INT8, ReadWrite)
    /\ pixels = NewPixels
    /\ dep_list = <<>>
    /\ kernel_args = {}
    /\ last_write = NoWrite

NextImagePitch ==
    \/ \E format \in PitchFormats : ImageWrite(WholeImage, format, TRUE)
    \/ \E format \in PitchFormats : ImageRead(WholeImage, format, TRUE)
    \/ \E format \in PitchFormats : ImageWriteDeps(WholeImage, format, FALSE)
    \/ \E format \in PitchFormats : ImageReadDeps(WholeImage, format)

SpecImagePitch == InitImagePitch /\ [][NextImagePitch]_vars

\* the call came as far as the pitches: access, region and the slice pitch of
\* a flat image are in order, and so is the format where it is looked at first
PitchesReached(o) ==
    /\ o.name \in ImageForms
    /\ ~WrongDirection(o)
    /\ ~EmptyRegion(o.region.dimensions)
    /\ ~OutOfImage(o.region.offset, o.region.dimensions)
    /\ ~SlicePitchOnFlatImage(o)
    /\ o.name \in DirectTransfers => ~FormatMismatch(o)

PitchTooSmall(o) ==
    \/ HostRow(o) < o.region.dimensions[1] * BytesPerHostPixel(o.format)
    \/ HostSlice(o) < o.region.dimensions[2] * HostRow(o)

\* the copies of the last call, and the offset of a copy in the host image
CopyCalls == SelectSeq(dev_calls, LAMBDA c : c.call = "memcpy")
HostSide(c) == IF c.to = "device" THEN c.src ELSE c.dst
DeviceSide(c) == IF c.to = "device" THEN c.dst ELSE c.src

\* the device command of a direct transfer carries the pitches; a slice pitch
\* of 0 stands for rows * row pitch
DirectUsesPitches ==
    /\ dev_calls[1].call \in DirectCommands
    /\ dev_calls[1].row_pitch = HostRow(op)
    /\ \/ dev_calls[1].slice_pitch = HostSlice(op)
       \/ /\ dev_calls[1].slice_pitch = 0
          /\ HostSlice(op) = op.region.dimensions[2] * HostRow(op)

\* the copies of a mapped transfer walk the host image with the pitches
MappedUsesPitches ==
    /\ dev_calls[1].call = "clEnqueueMapImage"
    /\ Len(CopyCalls) > 0
    /\ \A k \in 1..Len(CopyCalls) :
          IF Len(CopyCalls) = op.region.dimensions[3] * op.region.dimensions[2]
             /\ HostRow(op) # MappedRow /\ HostSlice(op) # MappedSlice
          THEN HostSide(CopyCalls[k])
                   = ((k - 1) \div op.region.dimensions[2]) * HostSlice(op)
                     + ((k - 1) % op.region.dimensions[2]) * HostRow(op)
          ELSE IF HostSlice(op) # MappedSlice
          THEN HostSide(CopyCalls[k]) = (k - 1) * HostSlice(op)
          ELSE /\ HostSide(CopyCalls[k]) = 0
               /\ CopyCalls[k].size = op.region.dimensions[3] * HostSlice(op)

\* C24: in every read and write path of an image the host row pitch is the
\* one supplied or, if that is 0, region width * host pixel size, the host
\* slice pitch the one supplied or, if that is 0, region height * row pitch;
\* the call fails when the row pitch is below region width * host pixel size
\* or the slice pitch below region height * row pitch, and goes on to the
\* device with these pitches otherwise
C24_PitchNegotiation ==
    PitchesReached(op) =>
        IF PitchTooSmall(op) THEN outcome = RuntimeError /\ dev_calls = <<>>
        ELSE /\ Len(dev_calls) > 0
             /\ IF op.name \in DirectTransfers THEN DirectUsesPitches
                ELSE MappedUsesPitches

\* a mapped write of the 3D image with a padded row pitch of 3 and no slice
\* pitch went row by row through slices 6 bytes apart
C24_Witness ==
    /\ PitchesReached(op) /\ ~PitchTooSmall(op)
    /\ op.name = "Image::write(deps)"
    /\ op.format.pitch = HostPitch(3, 0)
    /\ op.region.dimensions[3] = 2
    /\ HostSlice(op) = 6
    /\ Len(CopyCalls) > 1
    /\ HostSide(CopyCalls[Len(CopyCalls)]) >= 6
    /\ outcome = OK

\* the mapped transfer came to its copies
MappedCopied == op.name \in ImageMappedForms /\ outcome \in {OK, Crash}

\* C25: a mapped transfer picks its copies by the equality of pitches alone:
\* host slice pitch = device slice pitch (rows * row pitch where the device
\* reports 0): the region as one block; else host row pitch = device row
\* pitch: one block per depth index; else one copy per row of every slice
C25_TierByPitchEquality ==
    MappedCopied =>
        IF HostSlice(op) = MappedSlice
        THEN /\ Len(CopyCalls) = 1
             /\ HostSide(CopyCalls[1]) = 0 /\ DeviceSide(CopyCalls[1]) = 0
             /\ CopyCalls[1].size = op.region.dimensions[3] * HostSlice(op)
        ELSE IF HostRow(op) = MappedRow
        THEN /\ Len(CopyCalls) = op.region.dimensions[3]
             /\ \A k \in 1..Len(CopyCalls) :
                   /\ DeviceSide(CopyCalls[k]) = (k - 1) * MappedSlice
                   /\ HostSide(CopyCalls[k]) = (k - 1) * HostSlice(op)
        ELSE /\ Len(CopyCalls) = op.region.dimensions[2] * op.region.dimensions[3]
             /\ \A k \in 1..Len(CopyCalls) :
                   DeviceSide(CopyCalls[k])
                       = ((k - 1) \div op.region.dimensions[2]) * MappedSlice
                         + ((k - 1) % op.region.dimensions[2]) * MappedRow

\* a mapped read of the two slices of the 3D image whose rows have the pitch
\* of the mapping and whose slices do not took one copy per slice
C25_Witness ==
    /\ MappedCopied /\ outcome = OK
    /\ op.name = "Image::read(deps)"
    /\ op.region.dimensions[3] = 2 /\ op.region.dimensions[2] = 2
    /\ HostRow(op) = MappedRow /\ HostSlice(op) # MappedSlice
    /\ Len(CopyCalls) = 2

----------------------------------------------------------------------------
\* Mappings and their release, checked on SpecImageFormat.

MapCommands == {"clEnqueueMapBuffer", "clEnqueueMapImage"}

\* C27: when a read or write returns or throws, every map command of it that
\* succeeded has been followed by an unmap command: no path, a format
\* mismatch found after the mapping included, leaves a region mapped
C27_MapUnmapPaired ==
    outcome # Crash =>
        \A k \in 1..Len(dev_calls) :
            (dev_calls[k].call \in MapCommands /\ dev_calls[k].status = CL_SUCCESS)
                => \E u \in (k + 1)..Len(dev_calls) :
                      dev_calls[u].call = "clEnqueueUnmapMemObject"

----------------------------------------------------------------------------
\* The bytes the copies of a mapped transfer touch, checked on SpecImagePitch.

\* the extent of the region in the mapping and in the host image
MappedExtent ==
    (op.region.dimensions[3] - 1) * MappedSlice + (op.region.dimensions[2] - 1) * MappedRow
        + op.region.dimensions[1] * cl_pixel_size
HostExtent ==
    (op.region.dimensions[3] - 1) * HostSlice(op) + (op.region.dimensions[2] - 1) * HostRow(op)
        + op.region.dimensions[1] * BytesPerHostPixel(op.format)

\* C28: in each of the three copy tiers of a mapped read or write every byte
\* touched on the device side lies within the extent of the mapped region and
\* every byte touched on the host side within the extent of the host region
C28_CopiesWithinExtents ==
    MappedCopied =>
        \A k \in 1..Len(CopyCalls) :
            /\ DeviceSide(CopyCalls[k]) + CopyCalls[k].size <= MappedExtent
            /\ HostSide(CopyCalls[k]) + CopyCalls[k].size <= HostExtent

\* C29: after a successful mapped write every byte of every pixel of the
\* region on the device is the byte the host image holds for it at slice *
\* host slice pitch + row * host row pitch + column * pixel size + byte, and
\* after a successful mapped read the host image holds the device's byte
\* there, for all pitches of host and device that pass the validation
C29_PixelBytesTransferred ==
    MappedTransferDone => LogicalContentTransferred

----------------------------------------------------------------------------
\* The binding of kernel arguments, checked on SpecProgram.

ProgramForms ==
    ByNameForms \cup {"Program::operator()(kernel)", "Program::operator()(kernel, no deps)"}

BindCalls == SelectSeq(dev_calls, LAMBDA c : c.call = "clSetKernelArg")
Dispatches == SelectSeq(dev_calls, LAMBDA c : c.call = "clEnqueueNDRangeKernel")

\* C26: the arguments of a call are bound in ascending slot order 0, 1, ...,
\* one binding per argument; when the binding of slot i is rejected the call
\* ends with that error, no slot above i has been bound and no dispatch has
\* been submitted
C26_BindInOrderStopAtFirstError ==
    (op.name \in ProgramForms /\ ~UnknownName) =>
        /\ \A k \in 1..Len(BindCalls) :
              /\ dev_calls[k] = BindCalls[k]
              /\ BindCalls[k].index = k - 1
              /\ BindCalls[k].arg_size = op.args[k]
        /\ \A k \in 1..Len(BindCalls) :
              BindCalls[k].status # CL_SUCCESS =>
                  /\ k = Len(BindCalls)
                  /\ Dispatches = <<>>
                  /\ outcome = CLException
                  /\ ret_event = NULL
        /\ (\A k \in 1..Len(BindCalls) : BindCalls[k].status = CL_SUCCESS) =>
              (Len(BindCalls) = Len(op.args) /\ Len(Dispatches) = 1)

\* a call with two arguments whose first is rejected ended after one binding
C26_Witness ==
    /\ op.name \in ProgramForms /\ ~UnknownName
    /\ Len(op.args) = 2
    /\ Len(BindCalls) = 1
    /\ BindCalls[1].status # CL_SUCCESS
    /\ outcome = CLException
    /\ Dispatches = <<>>

----------------------------------------------------------------------------
(* namespace util: the powers of two *)

\* the number of bits of std::size_t in the model
SizeBits == 8
SizeTypeValues == 0..(2^SizeBits - 1)

\* a & b, bit by bit
RECURSIVE BitAnd(_, _)
BitAnd(a, b) ==
    IF a = 0 \/ b = 0 THEN 0
    ELSE (a % 2) * (b % 2) + 2 * BitAnd(a \div 2, b \div 2)

\* n && (n & (n - 1)) == 0
is_power_of_two(n) == n # 0 /\ BitAnd(n, n - 1) = 0

\* while(n != 0) { n = n >> 1; ++ct; }
RECURSIVE ShiftCount(_, _)
ShiftCount(n, ct) == IF n # 0 THEN ShiftCount(Shr(n, 1), ct + 1) ELSE ct

\* The values a call can return. 1ull >> (ct + 1) is undefined when the
\* shift count reaches the width of the type: the build yields 0, or shifts
\* by the count modulo the width.
next_power_of_two(n) ==
    IF is_power_of_two(n) THEN {n}
    ELSE LET ct == ShiftCount(n, 0)
         IN IF ct + 1 < SizeBits THEN {Shr(1, ct + 1)}
            ELSE {0, Shr(1, (ct + 1) % SizeBits)}

InitUtil ==
    /\ InitCommon
    /\ events = [i \in Tokens |-> Dead]
    /\ refcount = [h \in Handles |-> 0]
    /\ created = {}
    /\ finalized = {}
    /\ m_size = 0
    /\ host_access = NoAccess
    /\ mem = <<>>
    /\ host_out = <<>>
    /\ m_event_cache = NoCaches
    /\ m_image_desc = NoImage
    /\ pixels = <<>>
    /\ dep_list = <<>>
    /\ kernel_args = {}
    /\ last_write = NoWrite

utilUnchanged ==
    UNCHANGED <<eventVars, dev_calls, outcome, ret_event, m_size, host_access, mem, host_out,
                m_event_cache, m_image_desc, pixels, dep_list, kernel_args, last_write,
                objects, released>>

IsPowerOfTwo(n) ==
    /\ op' = [name |-> "util::is_power_of_two", n |-> n]
    /\ returned' = <<is_power_of_two(n)>>
    /\ utilUnchanged

NextPowerOfTwo(n) ==
    /\ op' = [name |-> "util::next_power_of_two", n |-> n]
    /\ \E r \in next_power_of_two(n) : returned' = <<r>>
    /\ utilUnchanged

NextUtil ==
    \E n \in SizeTypeValues :
        \/ IsPowerOfTwo(n)
        \/ NextPowerOfTwo(n)

SpecUtil == InitUtil /\ [][NextUtil]_vars

PowersOfTwo == {2^k : k \in 0..(SizeBits - 1)}

\* C23: for every n >= 1 with a power of two >= n in the size type,
\* next_power_of_two(n) returns the least power of two >= n
C23_NextPowerOfTwo ==
    (/\ op.name = "util::next_power_of_two"
     /\ op.n >= 1
     /\ \E p \in PowersOfTwo : p >= op.n) =>
        /\ returned[1] \in PowersOfTwo
        /\ returned[1] >= op.n
        /\ \A p \in PowersOfTwo : p >= op.n => returned[1] <= p

----------------------------------------------------------------------------
(* The kernel argument traits: is_cl_param, KernelArgTraits,
   is_valid_kernel_arg. A type is described by what the traits ask of it. *)

NoMember == [how |-> "none", converts |-> FALSE]
\* a member function by how it is declared, and whether its result converts
\* to what the trait asks for: std::size_t without narrowing for arg_size,
\* const void* for arg_data
Members ==
    {NoMember} \cup [how : {"const", "static", "non-const"}, converts : BOOLEAN]

ArgSizeofs == {1, 4}
ClassTypes ==
    [category : {"class"}, standard_layout : BOOLEAN, arg_size : Members, arg_data : Members,
     sizeof : ArgSizeofs]
ScalarTypes ==
    [category : {"arithmetic", "pointer", "nullptr_t"}, standard_layout : {TRUE},
     arg_size : {NoMember}, arg_data : {NoMember}, sizeof : ArgSizeofs]
\* LocalMemory<T>: a class of standard layout holding m_num_elements
LocalMemoryType(element_size) ==
    [category |-> "LocalMemory", standard_layout |-> TRUE,
     arg_size |-> [how |-> "const", converts |-> TRUE],
     arg_data |-> [how |-> "static", converts |-> TRUE],
     sizeof |-> 1, element_size |-> element_size]

\* the values of the argument: where it lies, and what its members return
ArgValue == [address |-> 7, arg_size |-> 2, arg_data |-> 9]
ClassArgs == {[type |-> T, address |-> ArgValue.address, arg_size |-> ArgValue.arg_size,
               arg_data |-> ArgValue.arg_data] : T \in ClassTypes \cup ScalarTypes}
\* LocalMemory::arg_size and arg_data
LocalMemory(element_size, num_elements) ==
    [type |-> LocalMemoryType(element_size), address |-> ArgValue.address,
     arg_size |-> (num_elements * element_size) % 2^SizeBits,
     arg_data |-> NULL, m_num_elements |-> num_elements]
LocalMemoryArgs == {LocalMemory(e, n) : e \in ArgSizeofs, n \in 0..MaxElems}
KernelArgs == ClassArgs \cup LocalMemoryArgs

\* std::declval<const T>().member() is well formed
CallableOnConst(member) == member.how \in {"const", "static"}

is_cl_param(T) ==
    /\ CallableOnConst(T.arg_size) /\ T.arg_size.converts
    /\ CallableOnConst(T.arg_data) /\ T.arg_data.converts

is_arithmetic(T) == T.category = "arithmetic"
is_pointer(T) == T.category = "pointer"
is_nullptr_t(T) == T.category = "nullptr_t"

\* the partial specializations of KernelArgTraits whose condition T meets
KernelArgTraits(T) ==
    {"is_cl_param" : x \in {1} \cap {IF is_cl_param(T) THEN 1 ELSE 0}}
    \cup {"value" : x \in {1} \cap
            {IF /\ (is_arithmetic(T) \/ T.standard_layout)
                /\ ~is_pointer(T)
                /\ ~is_nullptr_t(T)
                /\ ~is_cl_param(T) THEN 1 ELSE 0}}

is_valid_kernel_arg(T) ==
    /\ (is_cl_param(T) \/ is_arithmetic(T) \/ T.standard_layout)
    /\ ~is_pointer(T)
    /\ ~is_nullptr_t(T)

StaticRejection == [error |-> "does not compile"]
ArgPair(size, pointer) == [size |-> size, pointer |-> pointer]

\* KernelArgTraits<T>::arg_size(arg), KernelArgTraits<T>::arg_data(arg)
arg_pair(rule, arg) ==
    IF rule = "is_cl_param" THEN ArgPair(arg.arg_size, arg.arg_data)
    ELSE ArgPair(arg.type.sizeof, arg.address)

\* what becomes of one argument of Program::operator(): the static_assert,
\* then the one specialization of the traits that setKernelArgs names
ResolveKernelArg(arg) ==
    /\ op' = [name |-> "KernelArgTraits", arg |-> arg]
    /\ returned' =
          IF ~is_valid_kernel_arg(arg.type) \/ Cardinality(KernelArgTraits(arg.type)) # 1
          THEN <<StaticRejection>>
          ELSE <<arg_pair(CHOOSE rule \in KernelArgTraits(arg.type) : TRUE, arg)>>
    /\ utilUnchanged

NextArgTraits == \E arg \in KernelArgs : ResolveKernelArg(arg)

SpecArgTraits == InitUtil /\ [][NextArgTraits]_vars

\* T has a member arg_size() returning std::size_t and a member arg_data()
\* returning const void*, const or not
ExposesAccessors(T) ==
    /\ T.arg_size.how # "none" /\ T.arg_size.converts
    /\ T.arg_data.how # "none" /\ T.arg_data.converts

\* C22: a type that exposes arg_size() and arg_data() resolves to what they
\* return, also when it is of standard layout; an arithmetic or
\* standard-layout type that is no pointer, not nullptr_t and exposes no
\* accessors resolves to (sizeof, address of the value); LocalMemory
\* resolves to (element count * element size, null); every other type is
\* rejected statically
C22_ArgTraitRules ==
    op.name = "KernelArgTraits" =>
        LET arg == op.arg
            T == arg.type
        IN IF T.category = "LocalMemory"
           THEN returned = <<ArgPair(arg.m_num_elements * T.element_size, NULL)>>
           ELSE IF ExposesAccessors(T)
           THEN returned = <<ArgPair(arg.arg_size, arg.arg_data)>>
           ELSE IF /\ (T.category = "arithmetic" \/ T.standard_layout)
                   /\ T.category \notin {"pointer", "nullptr_t"}
           THEN returned = <<ArgPair(T.sizeof, arg.address)>>
           ELSE returned = <<StaticRejection>>

----------------------------------------------------------------------------
(* The lifetime of Buffer and Image objects: constructor, destructor, move
   constructor and move assignment. objects holds the caller's objects by
   the storage they live in; released counts, for every memory object the
   device has created, the calls of clReleaseMemObject made on it. *)

NumObjects == 2
NumMemObjects == 2
Slots == 1..NumObjects
WrapperSizes == {1, 2}

NoObject == [kind |-> "none"]
\* std::shared_ptr<Context>: the caller's context, or the empty pointer
clstate == [context |-> TRUE]
NoContext == [context |-> FALSE]
DefaultFlags == [host_access |-> ReadWrite]

BufferObject(m_cl_memory, size, state, m_flags, m_hostptr, cache) ==
    [kind |-> "Buffer", m_cl_memory |-> m_cl_memory, m_size |-> size, m_cl_state |-> state,
     m_flags |-> m_flags, m_hostptr |-> m_hostptr, m_event_cache |-> cache]
ImageObject(m_image, image_desc, cache, state) ==
    [kind |-> "Image", m_image |-> m_image, m_image_desc |-> image_desc,
     m_event_cache |-> cache, m_cl_state |-> state]

LifetimeDesc(width) ==
    ImageDesc("Image2D", <<width, 1, 1>>, ImageChannelOrder.R, ImageChannelType.INT8,
              ReadWrite)

Alive(s) == objects[s] # NoObject
MemHandle(o) == IF o.kind = "Buffer" THEN o.m_cl_memory ELSE o.m_image
Described(o) == IF o.kind = "Buffer" THEN o.m_size ELSE o.m_image_desc

\* clReleaseMemObject(h)
ReleaseMemObject(h) == [released EXCEPT ![h] = @ + 1]

lifetimeUnchanged ==
    UNCHANGED <<eventVars, dev_calls, ret_event, m_size, host_access, mem, host_out,
                m_event_cache, m_image_desc, pixels, dep_list, kernel_args, last_write,
                returned>>

InitLifetime ==
    /\ op = [name |-> "none"]
    /\ dev_calls = <<>>
    /\ outcome = OK
    /\ ret_event = NULL
    /\ objects = [s \in Slots |-> NoObject]
    /\ released = <<>>
    /\ returned = <<>>
    /\ events = [i \in Tokens |-> Dead]
    /\ refcount = [h \in Handles |-> 0]
    /\ created = {}
    /\ finalized = {}
    /\ m_size = 0
    /\ host_access = NoAccess
    /\ mem = <<>>
    /\ host_out = <<>>
    /\ m_event_cache = NoCaches
    /\ m_image_desc = NoImage
    /\ pixels = <<>>
    /\ dep_list = <<>>
    /\ kernel_args = {}
    /\ last_write = NoWrite

\* Buffer::Buffer(size, flags, clstate, hostptr) and Image::Image(clstate,
\* image_desc): the device creates the memory object or reports an error, and
\* then the constructor throws and there is no object
ConstructWrapper(s, kind, size, err) ==
    /\ Running
    /\ ~Alive(s)
    /\ Len(released) < NumMemObjects
    /\ op' = [name |-> kind, slot |-> s, size |-> size, err |-> err]
    /\ IF err # CL_SUCCESS
       THEN /\ outcome' = CLException
            /\ UNCHANGED <<objects, released>>
       ELSE LET h == Len(released) + 1
            IN /\ outcome' = OK
               /\ released' = Append(released, 0)
               /\ objects' = [objects EXCEPT ![s] =
                     IF kind = "Buffer"
                     THEN BufferObject(h, size, clstate, DefaultFlags, NULL, <<>>)
                     ELSE ImageObject(h, LifetimeDesc(size), <<>>, clstate)]
    /\ lifetimeUnchanged

\* Buffer::~Buffer and Image::~Image
DestroyWrapper(s) ==
    /\ Running
    /\ Alive(s)
    /\ op' = [name |-> "~" \o objects[s].kind, slot |-> s, handle |-> MemHandle(objects[s])]
    /\ released' = IF MemHandle(objects[s]) # NULL
                   THEN ReleaseMemObject(MemHandle(objects[s]))
                   ELSE released
    /\ objects' = [objects EXCEPT ![s] = NoObject]
    /\ outcome' = OK
    /\ lifetimeUnchanged

\* Buffer::Buffer(Buffer&&): every member starts empty, then is swapped with
\* the member of other, but for the event cache
BufferMoved(other) ==
    [this |-> BufferObject(other.m_cl_memory, other.m_size, other.m_cl_state, other.m_flags,
                           other.m_hostptr, <<>>),
     other |-> BufferObject(NULL, 0, NoContext, DefaultFlags, NULL, other.m_event_cache)]

\* Image::Image(Image&&): m_image, m_image_desc and m_event_cache have
\* initializers, m_cl_state is default-constructed
ImageMoved(other) ==
    [this |-> ImageObject(other.m_image, other.m_image_desc, <<>>, NoContext),
     other |-> [other EXCEPT !.m_image = NULL]]

MoveConstruct(dst, src) ==
    /\ Running
    /\ dst # src
    /\ ~Alive(dst)
    /\ Alive(src)
    /\ LET other == objects[src]
           moved == IF other.kind = "Buffer" THEN BufferMoved(other) ELSE ImageMoved(other)
       IN /\ op' = [name |-> other.kind \o "(" \o other.kind \o "&&)", slot |-> dst,
                    other |-> src, handle |-> MemHandle(other), extent |-> Described(other)]
          /\ objects' = [objects EXCEPT ![dst] = moved.this, ![src] = moved.other]
    /\ outcome' = OK
    /\ UNCHANGED released
    /\ lifetimeUnchanged

\* Buffer::operator=(Buffer&&): the members are swapped, the event cache of
\* this is cleared
BufferAssigned(this, other) ==
    [this |-> BufferObject(other.m_cl_memory, other.m_size, other.m_cl_state, other.m_flags,
                           other.m_hostptr, <<>>),
     other |-> BufferObject(this.m_cl_memory, this.m_size, this.m_cl_state, this.m_flags,
                            this.m_hostptr, other.m_event_cache)]

\* Image::operator=(Image&&): m_image and m_image_desc are swapped
ImageAssigned(this, other) ==
    [this |-> ImageObject(other.m_image, other.m_image_desc, this.m_event_cache,
                          this.m_cl_state),
     other |-> ImageObject(this.m_image, this.m_image_desc, other.m_event_cache,
                           other.m_cl_state)]

MoveAssign(dst, src) ==
    /\ Running
    /\ Alive(dst)
    /\ Alive(src)
    /\ objects[dst].kind = objects[src].kind
    /\ LET this == objects[dst]
           other == objects[src]
           moved == IF this.kind = "Buffer" THEN BufferAssigned(this, other)
                                            ELSE ImageAssigned(this, other)
       IN /\ op' = [name |-> this.kind \o "::operator=(" \o this.kind \o "&&)", slot |-> dst,
                    other |-> src, handle |-> MemHandle(other), extent |-> Described(other)]
          /\ objects' = IF dst = src THEN objects
                        ELSE [objects EXCEPT ![dst] = moved.this, ![src] = moved.other]
    /\ outcome' = OK
    /\ UNCHANGED released
    /\ lifetimeUnchanged

\* the memory object h exists on the device
ValidMemObject(h) == h # NULL /\ released[h] = 0

\* Buffer::buf_write and Image::img_write_mapped over the whole object, up to
\* the first command: the arguments pass the checks, m_cl_state is
\* dereferenced for the command queue, and the device takes the command or
\* rejects the handle. Dereferencing the empty pointer is undefined.
WrapperWrite(s) ==
    /\ Running
    /\ Alive(s)
    /\ LET this == objects[s]
       IN /\ op' = [name |-> this.kind \o "::write", slot |-> s, handle |-> MemHandle(this)]
          /\ IF this.m_cl_state = NoContext
             THEN outcome' \in {OK, Crash}
             ELSE outcome' = IF ValidMemObject(MemHandle(this)) THEN OK ELSE CLException
    /\ UNCHANGED <<objects, released>>
    /\ lifetimeUnchanged

NextLifetime ==
    \/ \E s \in Slots, kind \in {"Buffer", "Image"}, size \in WrapperSizes,
          err \in {CL_SUCCESS, CL_INVALID_VALUE} : ConstructWrapper(s, kind, size, err)
    \/ \E s \in Slots : DestroyWrapper(s)
    \/ \E dst \in Slots, src \in Slots : MoveConstruct(dst, src)
    \/ \E dst \in Slots, src \in Slots : MoveAssign(dst, src)
    \/ \E s \in Slots : WrapperWrite(s)

SpecLifetime == InitLifetime /\ [][NextLifetime]_vars

MemObjects == 1..Len(released)
Holders(h) == {s \in Slots : Alive(s) /\ MemHandle(objects[s]) = h}
MoveForms == {"Buffer(Buffer&&)", "Image(Image&&)", "Buffer::operator=(Buffer&&)",
              "Image::operator=(Image&&)"}
WrapperWriteForms == {"Buffer::write", "Image::write"}

\* every memory object is released at most once, and until then exactly one
\* object holds it
ExclusiveOwnership ==
    \A h \in MemObjects :
        /\ released[h] <= 1
        /\ Cardinality(Holders(h)) = 1 - released[h]

\* after a move from an object that held a memory object, the destination has
\* the handle, its size or descriptor and the context, and the source has
\* given the handle up
MoveTransfersState ==
    (op.name \in MoveForms /\ op.slot # op.other /\ op.handle # NULL) =>
        /\ MemHandle(objects[op.slot]) = op.handle
        /\ Described(objects[op.slot]) = op.extent
        /\ objects[op.slot].m_cl_state # NoContext
        /\ MemHandle(objects[op.other]) # op.handle

\* an object that holds a memory object can be written
HolderUsable ==
    (op.name \in WrapperWriteForms /\ op.handle # NULL) => outcome = OK

\* C21: through every sequence of constructions, moves and destructions of
\* Buffer and Image objects each memory object is held by exactly one object
\* and released exactly once; a move hands the destination the handle, its
\* size or descriptor and a context, leaves the source without the handle,
\* and the destination can be used afterwards
C21_ExclusiveOwnership ==
    /\ ExclusiveOwnership
    /\ MoveTransfersState
    /\ HolderUsable

----------------------------------------------------------------------------
(* The lifetime of Program objects: constructor, cleanup, destructor, move
   constructor and move assignment. Here released holds, for every program
   and kernel object the device has created, what it is and the calls of
   clReleaseProgram or clReleaseKernel made on it. *)

MaxKernels == 2
NumProgramObjects == 5

ProgramObject(kernels, state, program, cache) ==
    [kind |-> "Program", m_kernels |-> kernels, m_cl_state |-> state, m_cl_program |-> program,
     m_event_cache |-> cache]

\* clCreateProgramWithSource, clCreateKernel
CreateCLObjects(rel, what, n) == rel \o [i \in 1..n |-> [object |-> what, releases |-> 0]]
\* clReleaseKernel(h), clReleaseProgram(h)
ReleaseCLObject(rel, h) == [rel EXCEPT ![h].releases = @ + 1]

RECURSIVE ReleaseKernels(_, _)
ReleaseKernels(rel, kernels) ==
    IF kernels = <<>> THEN rel
    ELSE ReleaseKernels(IF Head(kernels) # NULL THEN ReleaseCLObject(rel, Head(kernels))
                                                ELSE rel,
                        Tail(kernels))

\* Program::cleanup(): the kernels are released and the map is cleared, the
\* program is released and m_cl_program keeps its value
cleanup(this, rel) ==
    [this |-> [this EXCEPT !.m_kernels = <<>>],
     released |-> LET kernels_released == ReleaseKernels(rel, this.m_kernels)
                  IN IF this.m_cl_program # NULL
                     THEN ReleaseCLObject(kernels_released, this.m_cl_program)
                     ELSE kernels_released]

\* a release of an object that has been released before is undefined; the
\* releases of one object are followed up to MaxReleases
MaxReleases == 2
ReleasedAgain(rel) == \E h \in DOMAIN rel : rel[h].releases > 1
AfterRelease(rel) ==
    /\ \A h \in DOMAIN rel : rel[h].releases <= MaxReleases
    /\ IF ReleasedAgain(rel) THEN outcome' \in {OK, Crash} ELSE outcome' = OK

\* where a construction can fail: the device call that reports an error, and
\* for the calls made per kernel the index of the kernel
ConstructionSteps ==
    {[call |-> "none", index |-> 0],
     [call |-> "clCreateProgramWithSource", index |-> 0],
     [call |-> "clBuildProgram", index |-> 0],
     [call |-> "clGetProgramInfo", index |-> 0]}
    \cup [call : {"clCreateKernel", "clGetKernelWorkGroupInfo"}, index : 0..(MaxKernels - 1)]

\* Program::Program(kernel_source, compiler_options, clstate) for a source
\* with num_kernels kernels, failing at the step failure (or not at all)
ConstructProgram(s, num_kernels, failure) ==
    /\ Running
    /\ ~Alive(s)
    /\ Len(released) + 1 + num_kernels <= NumProgramObjects
    /\ failure.index < num_kernels \/ failure.index = 0
    /\ failure.call \in {"clCreateKernel", "clGetKernelWorkGroupInfo"} => num_kernels > 0
    /\ op' = [name |-> "Program", slot |-> s, num_kernels |-> num_kernels, failure |-> failure]
    /\ LET no_program == failure.call = "clCreateProgramWithSource"
           m_cl_program == IF no_program THEN NULL ELSE Len(released) + 1
           with_program == IF no_program THEN released
                           ELSE CreateCLObjects(released, "program", 1)
           \* the kernels created before the failure
           kernels_created ==
               CASE failure.call = "none" -> num_kernels
                 [] failure.call = "clCreateKernel" -> failure.index
                 [] failure.call = "clGetKernelWorkGroupInfo" -> failure.index + 1
                 [] OTHER -> 0
           m_kernels == [i \in 1..kernels_created |-> Len(with_program) + i]
           with_kernels == CreateCLObjects(with_program, "kernel", kernels_created)
           this == ProgramObject(m_kernels, clstate, m_cl_program, <<>>)
       IN IF failure.call = "none"
          THEN /\ objects' = [objects EXCEPT ![s] = this]
               /\ released' = with_kernels
               /\ outcome' = OK
          ELSE /\ UNCHANGED objects
               /\ released' = cleanup(this, with_kernels).released
               /\ outcome' = CLException
    /\ lifetimeUnchanged

\* Program::~Program
DestroyProgram(s) ==
    /\ Running
    /\ Alive(s)
    /\ op' = [name |-> "~Program", slot |-> s]
    /\ released' = cleanup(objects[s], released).released
    /\ objects' = [objects EXCEPT ![s] = NoObject]
    /\ AfterRelease(released')
    /\ lifetimeUnchanged

\* Program::Program(Program&&)
MoveConstructProgram(dst, src) ==
    /\ Running
    /\ dst # src
    /\ ~Alive(dst)
    /\ Alive(src)
    /\ LET other == objects[src]
       IN /\ op' = [name |-> "Program(Program&&)", slot |-> dst, other |-> src]
          /\ objects' = [objects EXCEPT
                ![dst] = ProgramObject(other.m_kernels, other.m_cl_state, other.m_cl_program,
                                       <<>>),
                ![src] = ProgramObject(<<>>, NoContext, NULL, <<>>)]
    /\ outcome' = OK
    /\ UNCHANGED released
    /\ lifetimeUnchanged

\* Program::operator=(Program&&)
MoveAssignProgram(dst, src) ==
    /\ Running
    /\ Alive(dst)
    /\ Alive(src)
    /\ op' = [name |-> "Program::operator=(Program&&)", slot |-> dst, other |-> src]
    /\ IF dst = src
       THEN /\ UNCHANGED <<objects, released>>
            /\ outcome' = OK
       ELSE LET other == objects[src]
                cleaned == cleanup(objects[dst], released)
                this == cleaned.this
            IN /\ released' = cleaned.released
               /\ objects' = [objects EXCEPT
                     ![dst] = ProgramObject(other.m_kernels, other.m_cl_state,
                                            other.m_cl_program, <<>>),
                     ![src] = ProgramObject(this.m_kernels, NoContext, this.m_cl_program,
                                            <<>>)]
               /\ AfterRelease(released')
    /\ lifetimeUnchanged

NextProgramLifetime ==
    \/ \E s \in Slots, num_kernels \in 0..MaxKernels, failure \in ConstructionSteps :
          ConstructProgram(s, num_kernels, failure)
    \/ \E s \in Slots : DestroyProgram(s)
    \/ \E dst \in Slots, src \in Slots : MoveConstructProgram(dst, src)
    \/ \E dst \in Slots, src \in Slots : MoveAssignProgram(dst, src)

SpecProgramLifetime == InitLifetime /\ [][NextProgramLifetime]_vars

\* the Program objects that hold the program or kernel object h
ProgramHolders(h) ==
    {s \in Slots : /\ Alive(s)
                   /\ \/ objects[s].m_cl_program = h
                      \/ \E i \in DOMAIN objects[s].m_kernels : objects[s].m_kernels[i] = h}

\* C30: through every sequence of constructions (also failing ones), moves
\* and destructions of Program objects no program or kernel object is
\* released twice, and none is leaked: one that is not released is held by a
\* Program object
C30_ReleasedExactlyOnce ==
    \A h \in DOMAIN released :
        /\ released[h].releases <= 1
        /\ released[h].releases = 0 => ProgramHolders(h) # {}
====
